---- MODULE Spec2Model ----
(***************************************************************************)
(* A model of the buildkite command-line client: the pipeline resolver     *)
(* (findPipelineSlugs), the candidate prober (tryPipelineCandidates) and   *)
(* the build poll loop (doWait), with the pure helpers they use.           *)
(*                                                                         *)
(* Strings are sequences of one-character strings, so that the string      *)
(* helpers are computed character by character as the Go code does.        *)
(* Times and durations are integers counted in ticks; Second is the number *)
(* of ticks in one second.                                                 *)
(***************************************************************************)
EXTENDS Integers, Sequences, FiniteSets, TLC

(***************************************************************************)
(* Go's strings package, on sequences of characters.                       *)
(***************************************************************************)

Lower == <<"a","b","c","d","e","f","g","h","i","j","k","l","m",
           "n","o","p","q","r","s","t","u","v","w","x","y","z">>

Upper == <<"A","B","C","D","E","F","G","H","I","J","K","L","M",
           "N","O","P","Q","R","S","T","U","V","W","X","Y","Z">>

WhiteSpace == {" ", "\t", "\n", "\r"}

ToLowerChar(c) ==
    IF \E i \in 1..26 : Upper[i] = c
    THEN Lower[CHOOSE i \in 1..26 : Upper[i] = c]
    ELSE c

ToLower(s) == [i \in 1..Len(s) |-> ToLowerChar(s[i])]

HasPrefix(s, p) == Len(s) >= Len(p) /\ SubSeq(s, 1, Len(p)) = p

HasSuffix(s, p) == Len(s) >= Len(p) /\ SubSeq(s, Len(s) - Len(p) + 1, Len(s)) = p

TrimPrefix(s, p) == IF HasPrefix(s, p) THEN SubSeq(s, Len(p) + 1, Len(s)) ELSE s

TrimSuffix(s, p) == IF HasSuffix(s, p) THEN SubSeq(s, 1, Len(s) - Len(p)) ELSE s

TrimSpace(s) ==
    LET keep == {i \in 1..Len(s) : s[i] \notin WhiteSpace}
    IN  IF keep = {} THEN <<>>
        ELSE SubSeq(s, CHOOSE i \in keep : \A j \in keep : i <= j,
                       CHOOSE i \in keep : \A j \in keep : i >= j)

\* The index at which sub first occurs in s, 0 when it does not occur.
Index(s, sub) ==
    LET at == {i \in 1..(Len(s) - Len(sub) + 1) : SubSeq(s, i, i + Len(sub) - 1) = sub}
    IN  IF at = {} THEN 0 ELSE CHOOSE i \in at : \A j \in at : i <= j

Contains(s, sub) == Len(sub) = 0 \/ Index(s, sub) > 0

\* strings.Replace(s, old, new, 1): only the first occurrence is replaced.
ReplaceFirst(s, old, new) ==
    LET i == Index(s, old)
    IN  IF i = 0 THEN s
        ELSE SubSeq(s, 1, i - 1) \o new \o SubSeq(s, i + Len(old), Len(s))

\* strings.Count(s, c) for a one-character separator.
Count(s, c) == Cardinality({i \in 1..Len(s) : s[i] = c})

\* strings.Split(s, c) for a one-character separator: always at least one part.
RECURSIVE Split(_, _)
Split(s, c) ==
    LET i == Index(s, <<c>>)
    IN  IF i = 0 THEN <<s>>
        ELSE <<SubSeq(s, 1, i - 1)>> \o Split(SubSeq(s, i + 1, Len(s)), c)

min(a, b) == IF a < b THEN a ELSE b

max(a, b) == IF a > b THEN a ELSE b

(***************************************************************************)
(* Repository identity and the similarity score.                           *)
(***************************************************************************)

DotGit == <<".","g","i","t">>
Slash == <<"/">>
GitAt == <<"g","i","t","@">>
Schemes == << <<"h","t","t","p","s",":","/","/">>,
              <<"h","t","t","p",":","/","/">>,
              <<"s","s","h",":","/","/">> >>

\* The one element of a one-element set. A step of a computation is written
\* The({f(x) : x \in {e}}) where e is used several times in f, so that e is
\* computed once.
The(S) == CHOOSE x \in S : TRUE

\* Every colon of a git@ address turned into a slash.
ScpToPathAllColons(u) ==
    IF HasPrefix(u, GitAt)
    THEN [i \in 1..(Len(u) - 4) |-> IF u[i + 4] = ":" THEN "/" ELSE u[i + 4]]
    ELSE u

\* u = strings.Replace(TrimPrefix(u, "git@"), ":", "/", 1) when u starts with git@.
ScpToPath(u) ==
    IF HasPrefix(u, GitAt)
    THEN ReplaceFirst(TrimPrefix(u, GitAt), <<":">>, Slash)
    ELSE u

\* A scheme is stripped only when no scheme before it in the list was.
StripFirstScheme(u) ==
    IF HasPrefix(u, Schemes[1]) THEN TrimPrefix(u, Schemes[1])
    ELSE IF HasPrefix(u, Schemes[2]) THEN TrimPrefix(u, Schemes[2])
    ELSE TrimPrefix(u, Schemes[3])

\* for _, p := range schemes { u = strings.TrimPrefix(u, p) }
StripSchemes(u) ==
    The({TrimPrefix(u6, Schemes[3]) :
         u6 \in {TrimPrefix(u5, Schemes[2]) :
         u5 \in {TrimPrefix(u4, Schemes[1]) : u4 \in {u}}}})

normalizeRepo(u) ==
    The({ToLower(u7) :
         u7 \in {StripSchemes(u4) :
         u4 \in {ScpToPath(u3) :
         u3 \in {TrimSuffix(u2, Slash) :
         u2 \in {TrimSuffix(u1, DotGit) :
         u1 \in {TrimSpace(u0) : u0 \in {u}}}}}}})

\* The org/slug compared without regard to letter case.
SameUserRepoFolded(userRepo, cmp) ==
    \/ cmp = ToLower(userRepo)
    \/ HasSuffix(cmp, Slash \o ToLower(userRepo))
    \/ HasSuffix(ToLower(userRepo), Slash \o cmp)

\* sameRepo on the org/slug and the normalized comparison it computes.
SameUserRepo(userRepo, cmp) ==
    \/ cmp = userRepo
    \/ HasSuffix(cmp, Slash \o userRepo)
    \/ HasSuffix(userRepo, Slash \o cmp)

sameRepo(orgName, slug, comparison) ==
    \E userRepo \in {TrimSuffix(orgName \o Slash \o slug, Slash)} :
    \E cmp \in {TrimSuffix(n, Slash) : n \in {normalizeRepo(comparison)}} :
        SameUserRepo(userRepo, cmp)

\* The count the loop stops at: the largest k such that the last k
\* characters of a and of b are the same.
longestCommonSuffix(a, b) ==
    LET same == {k \in 0..min(Len(a), Len(b)) :
                    \A i \in 1..k : a[Len(a) - i + 1] = b[Len(b) - i + 1]}
    IN  Cardinality(same) - 1

\* One row of the edit-distance matrix from the row above it: row[j+1] is
\* matrix[i][j] for j in 0..Len(b). LevRow adds to acc, which holds the cells
\* before column Len(acc), the cells up to column hi, each from its left
\* neighbour; the columns are halved so that a long row is not one long
\* chain of calls.
RECURSIVE LevRow(_, _, _, _, _, _)
LevRow(prev, a, b, i, acc, hi) ==
    The({IF j > hi THEN acc
         ELSE IF j = hi
         THEN Append(acc, min(min(prev[j + 1] + 1, acc[j] + 1),
                              prev[j] + (IF a[i] /= b[j] THEN 1 ELSE 0)))
         ELSE The({LevRow(prev, a, b, i, half, hi) :
                   half \in {LevRow(prev, a, b, i, acc, (j + hi) \div 2)}}) :
         j \in {Len(acc)}})

\* Rows i..hi of the matrix from row i - 1, the rows halved likewise.
RECURSIVE LevRows(_, _, _, _, _)
LevRows(prev, a, b, i, hi) ==
    IF i > hi THEN prev
    ELSE IF i = hi THEN LevRow(prev, a, b, i, <<i>>, Len(b))
    ELSE The({LevRows(half, a, b, ((i + hi) \div 2) + 1, hi) :
              half \in {LevRows(prev, a, b, i, (i + hi) \div 2)}})

levenshteinDistance(a, b) ==
    IF Len(a) = 0 THEN Len(b)
    ELSE IF Len(b) = 0 THEN Len(a)
    ELSE LevRows([j \in 1..(Len(b) + 1) |-> j - 1], a, b, 1, Len(a))[Len(b) + 1]

\* The edit distance divided by the length before it is scaled to 100.
SameRepoScoreDividesFirst(userRepo, comparison) ==
    IF comparison = userRepo THEN 1000
    ELSE IF HasSuffix(comparison, Slash \o userRepo) THEN 1000
    ELSE LET commonSuffix == longestCommonSuffix(userRepo, comparison)
             editDist == levenshteinDistance(userRepo, comparison)
             maxLen == max(Len(userRepo), Len(comparison))
         IN  commonSuffix * 5
             + (IF Count(userRepo, "/") = Count(comparison, "/") THEN 50 ELSE 0)
             + (IF maxLen > 0 THEN max(0, 100 - ((editDist \div maxLen) * 100)) ELSE 0)

\* The score of a candidate that sameRepo accepts.
SameRepoScore(userRepo, comparison) ==
    IF comparison = userRepo THEN 1000
    ELSE IF HasSuffix(comparison, Slash \o userRepo) THEN 1000
    ELSE LET commonSuffix == longestCommonSuffix(userRepo, comparison)
             editDist == levenshteinDistance(userRepo, comparison)
             maxLen == max(Len(userRepo), Len(comparison))
         IN  commonSuffix * 5
             + (IF Count(userRepo, "/") = Count(comparison, "/") THEN 50 ELSE 0)
             + (IF maxLen > 0 THEN max(0, 100 - ((editDist * 100) \div maxLen)) ELSE 0)

\* The characters beyond the repository name counted however many they are.
ContainsScoreAnyExtra(org, repoName, candidateOrg, candidateSlug) ==
    LET extraChars == Len(candidateSlug) - Len(repoName)
    IN  500
        + (IF HasSuffix(candidateSlug, repoName) THEN 200 ELSE 0)
        + (100 - (extraChars * 5))
        + (IF org = candidateOrg THEN 100
           ELSE IF Contains(candidateOrg, org) \/ Contains(org, candidateOrg)
                THEN 50 ELSE 0)

\* The score of a candidate whose last segment contains the repository name.
ContainsScore(org, repoName, candidateOrg, candidateSlug) ==
    LET extraChars == Len(candidateSlug) - Len(repoName)
    IN  500
        + (IF HasSuffix(candidateSlug, repoName) THEN 200 ELSE 0)
        + (IF extraChars <= 10 THEN 100 - (extraChars * 5) ELSE 0)
        + (IF org = candidateOrg THEN 100
           ELSE IF Contains(candidateOrg, org) \/ Contains(org, candidateOrg)
                THEN 50 ELSE 0)

\* Only a last segment that ends with the repository name scores.
PartsScoreSuffixOnly(orgName, userRepoParts, comparisonParts) ==
    IF /\ Len(userRepoParts) >= 2
       /\ Len(comparisonParts) >= 2
       /\ HasSuffix(comparisonParts[Len(comparisonParts)], userRepoParts[Len(userRepoParts)])
    THEN 700
    ELSE 0

\* The score of a candidate that sameRepo does not accept.
PartsScore(orgName, userRepoParts, comparisonParts) ==
    IF /\ Len(userRepoParts) >= 2
       /\ Len(comparisonParts) >= 2
       /\ Contains(comparisonParts[Len(comparisonParts)], userRepoParts[Len(userRepoParts)])
    THEN The({ContainsScore(org, userRepoParts[Len(userRepoParts)], candidateOrg,
                            comparisonParts[Len(comparisonParts)]) :
              org \in {ToLower(orgName)},
              candidateOrg \in {ToLower(comparisonParts[Len(comparisonParts) - 1])}})
    ELSE 0

repoSimilarityScore(orgName, slug, repoURL) ==
    The({IF sameRepo(orgName, slug, repoURL)
         THEN SameRepoScore(userRepo, comparison)
         ELSE The({PartsScore(orgName, userRepoParts, comparisonParts) :
                   userRepoParts \in {Split(userRepo, "/")},
                   comparisonParts \in {Split(comparison, "/")}}) :
         userRepo \in {TrimSuffix(orgName \o Slash \o slug, Slash)},
         comparison \in {TrimSuffix(n, Slash) : n \in {normalizeRepo(repoURL)}}})

(***************************************************************************)
(* Bounds of the model.                                                    *)
(***************************************************************************)

\* The longest pipeline listing a single call returns, and the most
\* candidates a task collects.
MaxPipelines == 3

\* The most pages the GraphQL search is followed over.
MaxPages == 2

(***************************************************************************)
(* State.                                                                  *)
(***************************************************************************)

VARIABLES
    ctxDone,        \* the caller's context is done
    \* findPipelineSlugs
    cancelled,      \* cancelled[t]: cancelA / cancelB / cancelC has been called
    tpc,            \* tpc[t]: where task t is: "idle", "call", "send", "done"
    res,            \* res[t]: the ResultWithCandidates task t has built
    candidatesC,    \* task C's candidates, collected over the pages so far
    pagesC,         \* the number of pages task C has fetched
    closed,         \* the results channel is closed
    rpc,            \* the consumer: "idle", "recv", "returned"
    allCandidates,
    canUseGraphQL,
    ret,            \* what findPipelineSlugs returned
    \* history of findPipelineSlugs
    received,       \* the results the consumer received, in order
    accepted,       \* the tasks whose candidates were adopted, in order
    firstAdopted,   \* the candidate list adopted first
    cancels,        \* <<by, t>>: the result of task by made the consumer cancel t
    \* a task's scoring and sorting of one listing
    listing,        \* the pipelines the API returned, in the order returned
    produced,       \* the candidates the task made of them
    producedBy,     \* the task that made them: "", "A", "C"
    \* tryPipelineCandidates
    ppc,            \* "idle", "loop", "returned"
    probeCandidates,
    probeIdx,       \* the index of the candidate the loop is at (from 1)
    probeRet,       \* what tryPipelineCandidates returned
    probeFetched,   \* history: the slug and the error of every fetch made
    \* doWait
    wpc,            \* "idle", "start", "resolve", "probe", "previous", "fetch",
                    \* "sleep2", "sleep5", "sleep3", "returned"
    waitSlug,       \* the pipeline slug the builds are fetched for
    now,            \* the clock
    lastPrintedAt,
    previousBuild,
    latestBuild,    \* the build of the loop's last fetch
    waitErr,        \* the err of the loop's last fetch
    wret,           \* the error doWait returned
    \* history of doWait
    polls,          \* the number of fetches the loop has made
    lastOut,        \* what the last step of doWait wrote or displayed
    progressLines,  \* the number of "Build N running" lines written
    fetchedSlugs,   \* the slugs builds were fetched for
    scenario,       \* how far the fetches follow the schedule example
    exit,           \* the return statement doWait left by
    command,        \* the command that runs: "wait" or "open", "" while none does
    firstErr,       \* the err of the fetch made before the loop
    recentBuilds,   \* builds: the listing doWait fetched before its loop
    opened,         \* the builds whose WebURL openURL was called with, in order
    \* a pure function applied to one input
    fn,             \* the function: "" while none is applied
    arg,            \* its input
    fnResult,       \* what it returned
    applied         \* whether it has returned

ctxVars == <<ctxDone>>

resolverVars == <<cancelled, tpc, res, candidatesC, pagesC, closed, rpc,
                  allCandidates, canUseGraphQL, ret,
                  received, accepted, firstAdopted, cancels>>

listingVars == <<listing, produced, producedBy>>

proberVars == <<ppc, probeCandidates, probeIdx, probeRet, probeFetched>>

waitVars == <<wpc, waitSlug, now, lastPrintedAt, previousBuild, latestBuild, waitErr, wret,
              polls, lastOut, progressLines, fetchedSlugs, scenario, exit,
              command, firstErr, recentBuilds, opened>>

pureVars == <<fn, arg, fnResult, applied>>

vars == <<ctxVars, resolverVars, listingVars, proberVars, waitVars, pureVars>>

\* What the actions of one part of the program leave alone.
notResolver == <<listingVars, proberVars, waitVars, pureVars>>

notListing == <<ctxVars, resolverVars, proberVars, waitVars, pureVars>>

notProber == <<resolverVars, listingVars, pureVars>>

notWait == <<resolverVars, listingVars, pureVars>>

(***************************************************************************)
(* Errors. An error value is a record: its Go type, what the type carries  *)
(* (a net.OpError's Op and Net, whether Timeout() holds, a buildkite.Error's*)
(* status code, the text and arguments of an errors.New or fmt.Errorf) and *)
(* whether a url.Error wraps it. nil is the absence of an error.           *)
(***************************************************************************)

Error(type, text, args) ==
    [type |-> type, text |-> text, args |-> args, op |-> "", net |-> "",
     timeout |-> FALSE, status |-> 0, wrapped |-> FALSE]

nil == Error("nil", "", <<>>)

\* errors.New and fmt.Errorf
Errorf(text, args) == Error("errorString", text, args)

\* *net.OpError
OpError(op, net, timeout) ==
    [Error("net.OpError", "", <<>>) EXCEPT !.op = op, !.net = net, !.timeout = timeout]

\* *net.DNSError
DNSError(timeout) == [Error("net.DNSError", "", <<>>) EXCEPT !.timeout = timeout]

\* Any other error with a Timeout() method (a net.Error).
NetError(text, timeout) == [Error("net.Error", text, <<>>) EXCEPT !.timeout = timeout]

\* *buildkite.Error
BuildkiteError(status) == [Error("buildkite.Error", "", <<>>) EXCEPT !.status = status]

\* *url.Error{Err: err}
UrlError(err) == [err EXCEPT !.wrapped = TRUE]

\* What a request made with a cancelled context returns.
ctxErr == UrlError(Errorf("context canceled", <<>>))

\* A failure the API reports.
apiErr == BuildkiteError(500)

(***************************************************************************)
(* The inputs of findPipelineSlugs: the organization, the repository name  *)
(* and what the Buildkite API may answer.                                  *)
(***************************************************************************)

orgName == <<"o">>

repoSlug == <<"r">>

\* The pipelines an organization may hold: one whose repository is the
\* target, two that contain its name (and score the same), one that matches
\* by its last segment alone, one that does not match and one with no
\* repository URL.
Pipelines ==
    { [Slug |-> "exact", Repository |-> <<"g","i","t","@","h",":","o","/","r",".","g","i","t">>],
      [Slug |-> "x-r",   Repository |-> <<"h","/","o","/","x","r">>],
      [Slug |-> "y-r",   Repository |-> <<"h","/","o","/","y","r">>],
      [Slug |-> "r",     Repository |-> <<"r">>],
      [Slug |-> "other", Repository |-> <<"h","/","o","/","x">>],
      [Slug |-> "nourl", Repository |-> <<>>] }

\* The pipelines of the organization the resolver is run against.
OrgPipelines == {p \in Pipelines : p.Slug \in {"exact", "x-r", "other", "nourl"}}

NoDup(s) == \A i, j \in 1..Len(s) : i /= j => s[i] /= s[j]

\* The listings a call may return: up to n of the pipelines, none twice.
Listings(pipelines, n) ==
    UNION {{s \in [1..k -> pipelines] : NoDup(s)} : k \in 0..n}

OrgListings == Listings(OrgPipelines, MaxPipelines)

AllListings == Listings(Pipelines, MaxPipelines)

ScoredSlug(slug, score) == [Slug |-> slug, Score |-> score]

(***************************************************************************)
(* findPipelineSlugs: the three tasks.                                     *)
(***************************************************************************)

Tasks == {"A", "B", "C"}

\* ctxA, ctxB, ctxC are children of ctx: done when cancelled or when ctx is.
TaskCtxDone(t) == cancelled[t] \/ ctxDone

ResultWithCandidates(type, candidates, err, can) ==
    [RequestType |-> type, Candidates |-> candidates, Error |-> err, CanGraphQL |-> can]

NoResult == ResultWithCandidates("", <<>>, nil, "")

\* repoSimilarityScore(orgName, slug, p.Repository) of each pipeline, computed once.
PipelineScore ==
    [p \in Pipelines |-> repoSimilarityScore(orgName, repoSlug, p.Repository)]

\* Every pipeline of a listing made a candidate, whatever its score.
RECURSIVE scoreListingKeepAll(_, _)
scoreListingKeepAll(pipelines, skipEmptyURL) ==
    IF pipelines = <<>> THEN <<>>
    ELSE <<ScoredSlug(Head(pipelines).Slug, PipelineScore[Head(pipelines)])>>
         \o scoreListingKeepAll(Tail(pipelines), skipEmptyURL)

\* The candidates of a listing: each pipeline scored, those scoring 0 left out.
RECURSIVE scoreListing(_, _)
scoreListing(pipelines, skipEmptyURL) ==
    IF pipelines = <<>> THEN <<>>
    ELSE LET p == Head(pipelines)
             score == PipelineScore[p]
             rest == scoreListing(Tail(pipelines), skipEmptyURL)
         IN  IF skipEmptyURL /\ p.Repository = <<>> THEN rest
             ELSE IF score > 0 THEN <<ScoredSlug(p.Slug, score)>> \o rest
             ELSE rest

Swap(c, i, j) == [c EXCEPT ![i] = c[j], ![j] = c[i]]

\* The sort both tasks use: for i, for j > i, exchange when c[j] scores higher.
RECURSIVE sortLoop(_, _, _)
sortLoop(c, i, j) ==
    IF i > Len(c) - 1 THEN c
    ELSE IF j > Len(c) THEN sortLoop(c, i + 1, i + 2)
    ELSE IF c[j].Score > c[i].Score THEN sortLoop(Swap(c, i, j), i, j + 1)
    ELSE sortLoop(c, i, j + 1)

\* The candidates left in the order they were found.
unsorted(c) == c

sortByScore(c) == sortLoop(c, 1, 2)

\* Task A: one page of the REST listing, scored and sorted.
TaskAResult(pipelines, err) ==
    LET found == scoreListing(pipelines, FALSE)
    IN  ResultWithCandidates("A", sortByScore(found), err, "")

TaskACall ==
    /\ tpc["A"] = "call"
    /\ \E answer \in IF TaskCtxDone("A")
                     THEN {[pipelines |-> <<>>, err |-> ctxErr]}
                     ELSE {[pipelines |-> <<>>, err |-> apiErr]}
                          \cup {[pipelines |-> l, err |-> nil] : l \in OrgListings} :
          /\ res' = [res EXCEPT !["A"] = TaskAResult(answer.pipelines, answer.err)]
    /\ tpc' = [tpc EXCEPT !["A"] = "send"]
    /\ UNCHANGED <<ctxDone, cancelled, candidatesC, pagesC, closed, rpc, allCandidates,
                   canUseGraphQL, ret, received, accepted, firstAdopted, cancels>>
    /\ UNCHANGED notResolver

\* Task B: the GraphQL capability probe.
TaskBResult(success, err) ==
    ResultWithCandidates("B", <<>>, err, IF success THEN "can" ELSE "")

TaskBCall ==
    /\ tpc["B"] = "call"
    /\ \E answer \in IF TaskCtxDone("B")
                     THEN {[success |-> FALSE, err |-> ctxErr]}
                     ELSE {[success |-> FALSE, err |-> apiErr],
                           [success |-> FALSE, err |-> nil],
                           [success |-> TRUE, err |-> nil]} :
          res' = [res EXCEPT !["B"] = TaskBResult(answer.success, answer.err)]
    /\ tpc' = [tpc EXCEPT !["B"] = "send"]
    /\ UNCHANGED <<ctxDone, cancelled, candidatesC, pagesC, closed, rpc, allCandidates,
                   canUseGraphQL, ret, received, accepted, firstAdopted, cancels>>
    /\ UNCHANGED notResolver

\* The pages of the GraphQL search one call may return: edges not found on an
\* earlier page, and whether another page follows.
PagesC ==
    {[edges |-> l, hasNextPage |-> more] :
        l \in {e \in OrgListings :
                  LET found == scoreListing(e, TRUE)
                  IN  /\ Len(candidatesC) + Len(found) <= MaxPipelines
                      /\ \A i \in 1..Len(found), j \in 1..Len(candidatesC) :
                            found[i].Slug /= candidatesC[j].Slug},
        more \in {m \in BOOLEAN : m => pagesC + 1 < MaxPages}}

\* Task C: the result once the page loop has ended.
TaskCResult(candidates, err) ==
    ResultWithCandidates("C", sortByScore(candidates), err, "")

\* One turn of task C's page loop: a failed call or a last page ends the loop,
\* and the candidates are sorted into the result.
TaskCCall ==
    /\ tpc["C"] = "call"
    /\ \/ /\ \E err \in IF TaskCtxDone("C") THEN {ctxErr} ELSE {apiErr} :
                res' = [res EXCEPT !["C"] = TaskCResult(candidatesC, err)]
          /\ tpc' = [tpc EXCEPT !["C"] = "send"]
          /\ UNCHANGED <<candidatesC, pagesC>>
       \/ /\ ~TaskCtxDone("C")
          /\ \E page \in PagesC :
                LET candidates == candidatesC \o scoreListing(page.edges, TRUE)
                IN  /\ candidatesC' = candidates
                    /\ pagesC' = pagesC + 1
                    /\ IF page.hasNextPage
                       THEN UNCHANGED <<res, tpc>>
                       ELSE /\ res' = [res EXCEPT !["C"] = TaskCResult(candidates, nil)]
                            /\ tpc' = [tpc EXCEPT !["C"] = "send"]
    /\ UNCHANGED <<ctxDone, cancelled, closed, rpc, allCandidates,
                   canUseGraphQL, ret, received, accepted, firstAdopted, cancels>>
    /\ UNCHANGED notResolver

(***************************************************************************)
(* findPipelineSlugs: the consumer of the results channel.                 *)
(***************************************************************************)

\* Whether the consumer adopts the candidates of a result it received.
AcceptsA(result) == Len(result.Candidates) > 0

\* C's candidates adopted whatever the capability probe said.
AcceptsCWithoutCapability(result, canUse) == Len(result.Candidates) > 0

AcceptsC(result, canUse) == Len(result.Candidates) > 0 /\ canUse

RevokesGraphQL(result) == result.CanGraphQL = ""

\* The cancellation rules applied to a result whatever its Error.
CancelledByDespiteError(result, canUse) ==
    IF result.RequestType = "A" /\ AcceptsA(result) THEN {"B", "C"}
    ELSE IF result.RequestType = "B" /\ RevokesGraphQL(result) THEN {"C"}
    ELSE IF result.RequestType = "C" /\ AcceptsC(result, canUse) THEN {"A", "B"}
    ELSE {}

\* The tasks a received result makes the consumer cancel.
CancelledBy(result, canUse) ==
    IF result.Error /= nil THEN {}
    ELSE IF result.RequestType = "A" /\ AcceptsA(result) THEN {"B", "C"}
    ELSE IF result.RequestType = "B" /\ RevokesGraphQL(result) THEN {"C"}
    ELSE IF result.RequestType = "C" /\ AcceptsC(result, canUse) THEN {"A", "B"}
    ELSE {}

\* Whether a received result replaces allCandidates.
Adopts(result, canUse) ==
    /\ result.Error = nil
    /\ \/ result.RequestType = "A" /\ AcceptsA(result)
       \/ result.RequestType = "C" /\ AcceptsC(result, canUse)

\* The body of the consumer's loop for one received result.
Consume(result) ==
    /\ allCandidates' = IF Adopts(result, canUseGraphQL)
                        THEN result.Candidates ELSE allCandidates
    /\ canUseGraphQL' = IF /\ result.Error = nil
                           /\ result.RequestType = "B"
                           /\ RevokesGraphQL(result)
                        THEN FALSE ELSE canUseGraphQL
    /\ cancelled' = [t \in Tasks |->
                        cancelled[t] \/ t \in CancelledBy(result, canUseGraphQL)]
    /\ received' = Append(received, result)
    /\ accepted' = IF Adopts(result, canUseGraphQL)
                   THEN Append(accepted, result.RequestType) ELSE accepted
    /\ firstAdopted' = IF Adopts(result, canUseGraphQL) /\ accepted = <<>>
                       THEN result.Candidates ELSE firstAdopted
    /\ cancels' = cancels \cup
                     {<<result.RequestType, t>> : t \in CancelledBy(result, canUseGraphQL)}

\* The select of a task: the send, taken when the consumer receives.
TaskSend(t) ==
    /\ tpc[t] = "send"
    /\ rpc = "recv"
    /\ ~closed
    /\ Consume(res[t])
    /\ tpc' = [tpc EXCEPT ![t] = "done"]
    /\ res' = [res EXCEPT ![t] = NoResult]
    /\ UNCHANGED <<ctxDone, candidatesC, pagesC, closed, rpc, ret>>
    /\ UNCHANGED notResolver

\* The select of a task: its context is done, the result is dropped. When the
\* consumer is receiving as well, either case of the select may be taken.
TaskSkip(t) ==
    /\ tpc[t] = "send"
    /\ TaskCtxDone(t)
    /\ tpc' = [tpc EXCEPT ![t] = "done"]
    /\ res' = [res EXCEPT ![t] = NoResult]
    /\ UNCHANGED <<ctxDone, cancelled, candidatesC, pagesC, closed, rpc, allCandidates,
                   canUseGraphQL, ret, received, accepted, firstAdopted, cancels>>
    /\ UNCHANGED notResolver

\* The channel closed as soon as one task has finished.
CloseResultsEarly ==
    /\ \E t \in Tasks : tpc[t] = "done"
    /\ ~closed
    /\ closed' = TRUE
    /\ UNCHANGED <<ctxDone, cancelled, tpc, res, candidatesC, pagesC, rpc, allCandidates,
                   canUseGraphQL, ret, received, accepted, firstAdopted,
                   cancels>>
    /\ UNCHANGED notResolver

\* The channel closed by the consumer, once its loop has ended.
CloseResultsAfterReturn ==
    /\ rpc = "returned"
    /\ ~closed
    /\ closed' = TRUE
    /\ UNCHANGED <<ctxDone, cancelled, tpc, res, candidatesC, pagesC, rpc, allCandidates,
                   canUseGraphQL, ret, received, accepted, firstAdopted,
                   cancels>>
    /\ UNCHANGED notResolver

\* wg.Wait() then close(results).
CloseResults ==
    /\ \A t \in Tasks : tpc[t] = "done"
    /\ ~closed
    /\ closed' = TRUE
    /\ UNCHANGED <<ctxDone, cancelled, tpc, res, candidatesC, pagesC, rpc, allCandidates,
                   canUseGraphQL, ret, received, accepted, firstAdopted,
                   cancels>>
    /\ UNCHANGED notResolver

notFound == Errorf("could not find pipeline slug for %q", <<repoSlug>>)

\* Whatever was collected returned without an error.
findPipelineSlugsReturnNoError(all) == [candidates |-> all, err |-> nil]

\* What findPipelineSlugs returns once the range loop has ended.
findPipelineSlugsReturn(all) ==
    IF Len(all) > 0
    THEN [candidates |-> all, err |-> nil]
    ELSE [candidates |-> <<>>, err |-> notFound]

NoReturn == [candidates |-> <<>>, err |-> nil]

\* The range loop ends on the closed channel; the deferred cancels run.
ResolverReturn ==
    /\ rpc = "recv"
    /\ closed
    /\ ret' = findPipelineSlugsReturn(allCandidates)
    /\ rpc' = "returned"
    /\ cancelled' = [t \in Tasks |-> TRUE]
    /\ cancels' = cancels \cup {<<"defer", t>> : t \in Tasks}
    /\ UNCHANGED <<ctxDone, tpc, res, candidatesC, pagesC, closed, allCandidates,
                   canUseGraphQL, received, accepted, firstAdopted>>
    /\ UNCHANGED notResolver

(***************************************************************************)
(* The candidate list a task makes of one answer of the API, on its own:   *)
(* task A of a REST listing, task C of the edges of its pages in order.    *)
(***************************************************************************)

ProduceA ==
    /\ producedBy = ""
    /\ produced' = TaskAResult(listing, nil).Candidates
    /\ producedBy' = "A"
    /\ UNCHANGED listing
    /\ UNCHANGED notListing

ProduceC ==
    /\ producedBy = ""
    /\ produced' = TaskCResult(scoreListing(listing, TRUE), nil).Candidates
    /\ producedBy' = "C"
    /\ UNCHANGED listing
    /\ UNCHANGED notListing

(***************************************************************************)
(* Time. The clock and every time of a build are counted in ticks from     *)
(* the moment doWait starts.                                               *)
(***************************************************************************)

\* The ticks of one second.
Second == 2

Minute == 60 * Second

\* time.Time{}, the value of a time that was never set: earlier than any
\* time of the model by more than any duration of the model.
ZeroTime == 0 - 1000 * Minute

\* Duration.Round(time.Second): to the nearest second, halves away from zero.
Round(d) ==
    LET a == IF d < 0 THEN 0 - d ELSE d
        r == a % Second
        n == IF r + r < Second THEN a - r ELSE a + Second - r
    IN  IF d < 0 THEN 0 - n ELSE n

(***************************************************************************)
(* Builds and the answers of the API to a listing of builds.               *)
(***************************************************************************)

tip == "tip"

branch == "main"

NullTime(valid, time) == [Valid |-> valid, Time |-> time]

Build(state, commit, startedAt, finishedAt) ==
    [State |-> state, Commit |-> commit, StartedAt |-> startedAt, FinishedAt |-> finishedAt]

NoBuild == Build("", "", ZeroTime, NullTime(FALSE, ZeroTime))

BuildStates == {"scheduled", "running", "passed", "failing", "failed", "canceled"}

\* The builds a branch may have as its latest at time t: of the tip or of an
\* older commit, started five minutes before doWait or half a second later,
\* finished (now) when its state is a final one.
LatestBuilds(t) ==
    {Build(st, c, s, IF st \in {"passed", "failed", "canceled"}
                     THEN NullTime(TRUE, t) ELSE NullTime(FALSE, ZeroTime)) :
        st \in BuildStates, c \in {tip, "old"}, s \in {0 - 5 * Minute, 1 - 5 * Minute}}

\* The errors a request may fail with while its context is not done: the API
\* answers 404 or 500, the connection cannot be made, the name does not
\* resolve, the request times out, a read on the connection fails or times
\* out.
RequestErrors ==
    {BuildkiteError(404), BuildkiteError(500),
     UrlError(OpError("dial", "tcp", FALSE)),
     UrlError(DNSError(FALSE)),
     UrlError(NetError("context deadline exceeded", TRUE)),
     UrlError(OpError("read", "tcp", FALSE)),
     UrlError(OpError("read", "tcp", TRUE))}

ListBuildsAnswer(builds, e) == [builds |-> builds, err |-> e]

\* What ListBuilds may answer for the latest build at time t.
LatestAnswers(t) ==
    IF ctxDone THEN {ListBuildsAnswer(<<>>, ctxErr)}
    ELSE {ListBuildsAnswer(<<>>, e) : e \in RequestErrors}
         \cup {ListBuildsAnswer(<<>>, nil)}
         \cup {ListBuildsAnswer(<<b>>, nil) : b \in LatestBuilds(t)}

errNoBuilds == Errorf("buildkite: no builds", <<>>)

getBuilds(answer) ==
    IF answer.err /= nil THEN ListBuildsAnswer(<<>>, answer.err) ELSE answer

getLatestBuild(answer) ==
    LET got == getBuilds(answer)
    IN  IF got.err /= nil THEN [build |-> NoBuild, err |-> got.err]
        ELSE IF Len(got.builds) = 0 THEN [build |-> NoBuild, err |-> errNoBuilds]
        ELSE [build |-> got.builds[1], err |-> nil]

\* A listing without builds taken for a failure of the network as well.
isHttpErrorOrNoBuilds(e) ==
    IF e = nil THEN FALSE
    ELSE IF e = errNoBuilds THEN TRUE
    ELSE \E inner \in {IF e.wrapped THEN [e EXCEPT !.wrapped = FALSE] ELSE e} :
            IF inner.type = "net.OpError" THEN inner.op = "dial" /\ inner.net = "tcp"
            ELSE IF inner.type = "net.DNSError" THEN TRUE
            ELSE IF inner.type = "net.Error" THEN inner.timeout
            ELSE FALSE

isHttpError(e) ==
    IF e = nil THEN FALSE
    ELSE \E inner \in {IF e.wrapped THEN [e EXCEPT !.wrapped = FALSE] ELSE e} :
            IF inner.wrapped THEN FALSE
            ELSE IF inner.type = "net.OpError" THEN inner.op = "dial" /\ inner.net = "tcp"
            ELSE IF inner.type = "net.DNSError" THEN TRUE
            ELSE IF inner.type = "net.Error" THEN inner.timeout
            ELSE FALSE

(***************************************************************************)
(* tryPipelineCandidates.                                                  *)
(***************************************************************************)

noCandidateHasBuilds ==
    Errorf("no pipeline candidates have builds for branch %s", <<branch>>)

NoProbeReturn == [slug |-> "", err |-> nil]

\* The loop going on only for a candidate without builds.
ProbeContinuesOnNoBuilds(e) == e = errNoBuilds

\* The loop left when a fetch fails on the cancelled context.
ProbeContinuesUnlessCancelled(e) == e /= nil /\ e /= ctxErr

\* One turn of the loop: the latest build of the candidate is fetched; the
\* slug is returned when the fetch succeeds, the loop goes on when it fails.
ProbeContinues(e) == e /= nil

ProbeTry ==
    /\ ppc = "loop"
    /\ probeIdx <= Len(probeCandidates)
    /\ \E answer \in LatestAnswers(now) :
          LET candidate == probeCandidates[probeIdx]
              got == getLatestBuild(answer)
          IN  /\ probeFetched' = Append(probeFetched,
                                        [slug |-> candidate.Slug, err |-> got.err])
              /\ IF ProbeContinues(got.err)
                 THEN /\ probeIdx' = probeIdx + 1
                      /\ UNCHANGED <<ppc, probeRet>>
                 ELSE /\ probeRet' = [slug |-> candidate.Slug, err |-> nil]
                      /\ ppc' = "returned"
                      /\ UNCHANGED probeIdx
    /\ UNCHANGED <<ctxDone, probeCandidates>>
    /\ UNCHANGED <<notProber, waitVars>>

\* The loop has run over every candidate.
ProbeFails ==
    /\ ppc = "loop"
    /\ probeIdx > Len(probeCandidates)
    /\ probeRet' = [slug |-> "", err |-> noCandidateHasBuilds]
    /\ ppc' = "returned"
    /\ UNCHANGED <<ctxDone, probeCandidates, probeIdx, probeFetched>>
    /\ UNCHANGED <<notProber, waitVars>>

(***************************************************************************)
(* doWait.                                                                 *)
(***************************************************************************)

\* The repository name of the remote: the slug doWait first asks for.
remoteRepoName == "r"

\* The time a sleep takes beyond its timer, with the request that follows:
\* none, or enough to make a 3 s poll interval last four minutes.
Delays == {0, 237 * Second}

\* A line due at the very instant the interval has passed.
shouldPrintAtInterval(lastPrinted, d, latest, previous, t) ==
    LET buildDuration == IF previous = NoBuild THEN 5 * Minute
                         ELSE previous.FinishedAt.Time - previous.StartedAt
        timeRemaining == buildDuration - d
        durToUse == IF timeRemaining > 25 * Minute THEN 3 * Minute
                    ELSE IF timeRemaining > 8 * Minute THEN 2 * Minute
                    ELSE IF timeRemaining > 5 * Minute THEN 30 * Second
                    ELSE IF timeRemaining > 3 * Minute THEN 20 * Second
                    ELSE IF timeRemaining > Minute THEN 15 * Second
                    ELSE 10 * Second
    IN  lastPrinted + durToUse <= t

\* The interval chosen from the time the build has run, not from the time
\* it has left.
shouldPrintFromElapsed(lastPrinted, d, latest, previous, t) ==
    LET timeRemaining == d
        durToUse == IF timeRemaining > 25 * Minute THEN 3 * Minute
                    ELSE IF timeRemaining > 8 * Minute THEN 2 * Minute
                    ELSE IF timeRemaining > 5 * Minute THEN 30 * Second
                    ELSE IF timeRemaining > 3 * Minute THEN 20 * Second
                    ELSE IF timeRemaining > Minute THEN 15 * Second
                    ELSE 10 * Second
    IN  lastPrinted + durToUse < t

\* A progress line printed while the interval has not yet elapsed.
shouldPrintInverted(lastPrinted, d, latest, previous, t) ==
    LET buildDuration == IF previous = NoBuild THEN 5 * Minute
                         ELSE previous.FinishedAt.Time - previous.StartedAt
        timeRemaining == buildDuration - d
        durToUse == IF timeRemaining > 25 * Minute THEN 3 * Minute
                    ELSE IF timeRemaining > 8 * Minute THEN 2 * Minute
                    ELSE IF timeRemaining > 5 * Minute THEN 30 * Second
                    ELSE IF timeRemaining > 3 * Minute THEN 20 * Second
                    ELSE IF timeRemaining > Minute THEN 15 * Second
                    ELSE 10 * Second
    IN  lastPrinted + durToUse > t

shouldPrint(lastPrinted, d, latest, previous, t) ==
    LET buildDuration == IF previous = NoBuild THEN 5 * Minute
                         ELSE previous.FinishedAt.Time - previous.StartedAt
        timeRemaining == buildDuration - d
        durToUse == IF timeRemaining > 25 * Minute THEN 3 * Minute
                    ELSE IF timeRemaining > 8 * Minute THEN 2 * Minute
                    ELSE IF timeRemaining > 5 * Minute THEN 30 * Second
                    ELSE IF timeRemaining > 3 * Minute THEN 20 * Second
                    ELSE IF timeRemaining > Minute THEN 15 * Second
                    ELSE 10 * Second
    IN  lastPrinted + durToUse < t

\* The duration doWait reports for a build at time t.
duration(build, t) ==
    IF build.FinishedAt.Valid
    THEN Round(build.FinishedAt.Time - build.StartedAt)
    ELSE Round(t - build.StartedAt)

\* A passed build taken whatever its commit.
waitsForTipUnlessPassed(build) == build.Commit /= tip /\ build.State /= "passed"

\* The loop waits for the tip instead of looking at the build's state.
waitsForTip(build) == build.Commit /= tip

\* A failing build taken for one still under way.
classifyFailingAsPending(state) ==
    IF state = "passed" THEN "passed"
    ELSE IF state = "failed" THEN "failed"
    ELSE IF state = "running" THEN "running"
    ELSE "default"

\* The case of the switch on the build's state.
\* A passed build handled as a build in any other state.
classifyPassedAsOther(state) ==
    IF state \in {"failing", "failed"} THEN "failed"
    ELSE IF state = "running" THEN "running"
    ELSE "default"

\* A canceled build taken for a failed one.
classifyCanceledAsFailed(state) ==
    IF state = "passed" THEN "passed"
    ELSE IF state \in {"failing", "failed", "canceled"} THEN "failed"
    ELSE IF state = "running" THEN "running"
    ELSE "default"

\* A running build handled as a build in any other state.
classifyRunningAsOther(state) ==
    IF state = "passed" THEN "passed"
    ELSE IF state \in {"failing", "failed"} THEN "failed"
    ELSE "default"

classify(state) ==
    IF state = "passed" THEN "passed"
    ELSE IF state \in {"failing", "failed"} THEN "failed"
    ELSE IF state = "running" THEN "running"
    ELSE "default"

noResults ==
    Errorf("No results, are you sure there are tests for %s/%s?\n",
           <<orgName, remoteRepoName>>)

buildFailed == Errorf("Build on %s failed!\n\n", <<branch>>)

\* ctx.Err() of the cancelled context.
Canceled == Errorf("context canceled", <<>>)

\* What findPipelineSlugs may return to doWait.
ResolverOutcomes ==
    IF ctxDone THEN {findPipelineSlugsReturn(<<>>)}
    ELSE {findPipelineSlugsReturn(sortByScore(scoreListing(l, skip))) :
            l \in OrgListings, skip \in BOOLEAN}

\* The search for a passed build begun at the latest build.
selectPreviousFromLatest(builds) ==
    IF \E i \in 1..Len(builds) : builds[i].State = "passed"
    THEN builds[CHOOSE i \in 1..Len(builds) :
                    /\ builds[i].State = "passed"
                    /\ \A j \in 1..(i - 1) : builds[j].State /= "passed"]
    ELSE NoBuild

\* The build before the latest that passed, if the listing has one.
selectPrevious(builds) ==
    IF \E i \in 2..Len(builds) : builds[i].State = "passed"
    THEN builds[CHOOSE i \in 2..Len(builds) :
                    /\ builds[i].State = "passed"
                    /\ \A j \in 2..(i - 1) : builds[j].State /= "passed"]
    ELSE NoBuild

P30 == Build("passed", "old", 0 - 50 * Minute, NullTime(TRUE, 0 - 20 * Minute))

P2 == Build("passed", "old", 0 - 12 * Minute, NullTime(TRUE, 0 - 10 * Minute))

F30 == Build("failed", "old", 0 - 90 * Minute, NullTime(TRUE, 0 - 60 * Minute))

P7 == Build("passed", "old", 0 - 8 * Minute, NullTime(TRUE, 0 - 1 * Minute))

\* What ListBuilds may answer for the builds of the branch, latest first.
BuildsAnswers ==
    IF ctxDone THEN {ListBuildsAnswer(<<>>, ctxErr)}
    ELSE {ListBuildsAnswer(<<>>, e) : e \in RequestErrors}
         \cup {ListBuildsAnswer(bs, nil) :
                 bs \in {<<>>, <<P7>>, <<P7, P30>>, <<P7, P2>>, <<P7, F30, P2>>,
                         <<P7, F30>>, <<P7, P30, P2>>}}

Return(e, by) ==
    /\ wret' = e
    /\ exit' = by
    /\ wpc' = "returned"

\* The pipeline looked for after a 404 alone.
ResolvesOnNotFound(e) == e = BuildkiteError(404)

\* The errors of the first fetch after which the pipeline is looked for: the
\* API's 404 and no builds.
Resolves(e) == e = BuildkiteError(404) \/ e = errNoBuilds

\* The first fetch of the latest build, for the repository's own name; the
\* same in doWait and in doOpen.
DoWaitStart ==
    /\ wpc = "start"
    /\ fetchedSlugs' = Append(fetchedSlugs, waitSlug)
    /\ \E answer \in LatestAnswers(now) : \E got \in {getLatestBuild(answer)} :
          /\ firstErr' = got.err
          /\ IF got.err = nil
             THEN /\ wpc' = "previous"
                  /\ UNCHANGED <<wret, exit, lastOut>>
             ELSE IF Resolves(got.err)
             THEN /\ wpc' = "resolve"
                  /\ UNCHANGED <<wret, exit, lastOut>>
             ELSE /\ Return(got.err, "start")
                  /\ lastOut' = {"starterr"}
    /\ UNCHANGED <<waitSlug, now, lastPrintedAt, previousBuild, latestBuild, waitErr,
                   polls, progressLines, scenario>>
    /\ UNCHANGED <<ctxDone, proberVars, notWait>>
    /\ UNCHANGED <<command, recentBuilds, opened>>

\* findPipelineSlugs is called; tryPipelineCandidates is entered with what
\* it returned.
DoWaitResolve ==
    /\ wpc = "resolve"
    /\ \E out \in ResolverOutcomes :
          IF out.err /= nil
          THEN /\ Return(out.err, "resolve")
               /\ UNCHANGED proberVars
          ELSE /\ wpc' = "probe"
               /\ ppc' = "loop"
               /\ probeCandidates' = out.candidates
               /\ probeIdx' = 1
               /\ probeRet' = NoProbeReturn
               /\ probeFetched' = <<>>
               /\ UNCHANGED <<wret, exit>>
    /\ UNCHANGED <<waitSlug, now, lastPrintedAt, previousBuild, latestBuild, waitErr,
                   polls, lastOut, progressLines, fetchedSlugs, scenario>>
    /\ UNCHANGED <<ctxDone, notWait>>
    /\ UNCHANGED <<command, firstErr, recentBuilds, opened>>

IdleProber ==
    /\ ppc = "idle"
    /\ probeCandidates = <<>>
    /\ probeIdx = 0
    /\ probeRet = NoProbeReturn
    /\ probeFetched = <<>>

\* tryPipelineCandidates has returned.
DoWaitProbed ==
    /\ wpc = "probe"
    /\ ppc = "returned"
    /\ IF probeRet.err /= nil
       THEN /\ Return(probeRet.err, "probe")
            /\ UNCHANGED waitSlug
       ELSE /\ waitSlug' = probeRet.slug
            /\ wpc' = "previous"
            /\ UNCHANGED <<wret, exit>>
    /\ ppc' = "idle"
    /\ probeCandidates' = <<>>
    /\ probeIdx' = 0
    /\ probeRet' = NoProbeReturn
    /\ probeFetched' = <<>>
    /\ UNCHANGED <<now, lastPrintedAt, previousBuild, latestBuild, waitErr,
                   polls, lastOut, progressLines, fetchedSlugs, scenario>>
    /\ UNCHANGED <<ctxDone, notWait>>
    /\ UNCHANGED <<command, firstErr, recentBuilds, opened>>

\* The builds of the branch are listed and the reference build is chosen.
DoWaitPrevious ==
    /\ wpc = "previous"
    /\ fetchedSlugs' = Append(fetchedSlugs, waitSlug)
    /\ \E answer \in BuildsAnswers : \E got \in {getBuilds(answer)} :
          /\ recentBuilds' = got.builds
          /\ previousBuild' = IF got.err = nil THEN selectPrevious(got.builds) ELSE NoBuild
    /\ lastPrintedAt' = ZeroTime
    /\ scenario' = IF previousBuild' /= NoBuild
                      /\ previousBuild'.FinishedAt.Time - previousBuild'.StartedAt = 30 * Minute
                   THEN 0 ELSE 0 - 1
    /\ lastOut' = {"waiting"}
    /\ wpc' = "fetch"
    /\ UNCHANGED <<waitSlug, now, latestBuild, waitErr, wret, polls, progressLines, exit>>
    /\ UNCHANGED <<ctxDone, proberVars, notWait>>
    /\ UNCHANGED <<command, firstErr, opened>>

\* The bound of the model on the fetches of the poll loop.
MaxPolls == 3

\* How far the fetches of the loop follow the example of the schedule: a
\* reference build of 30 minutes, then the tip running at 5 minutes, the tip
\* running at 9 minutes, the tip passed.
Follows(n, build, d) ==
    IF n = 0 /\ build.Commit = tip /\ build.State = "running" /\ d = 5 * Minute THEN 1
    ELSE IF n = 1 /\ build.Commit = tip /\ build.State = "running" /\ d = 9 * Minute THEN 2
    ELSE IF n = 2 /\ build.Commit = tip /\ build.State = "passed" THEN 3
    ELSE 0 - 1

\* The switch on the state of a build of the tip.
Classify(build, d) ==
    \E case \in {classify(build.State)} :
       /\ case = "passed" =>
             /\ lastOut' = {"summary", "took", "notify"}
             /\ Return(nil, "passed")
             /\ UNCHANGED <<lastPrintedAt, progressLines>>
       /\ case = "failed" =>
             /\ lastOut' = {"summary", "url", "notify"}
             /\ Return(buildFailed, "failed")
             /\ UNCHANGED <<lastPrintedAt, progressLines>>
       /\ case = "running" =>
             /\ IF shouldPrint(lastPrintedAt, d, build, previousBuild, now)
                THEN /\ lastOut' = {"progress"}
                     /\ progressLines' = progressLines + 1
                     /\ lastPrintedAt' = now
                ELSE /\ lastOut' = {}
                     /\ UNCHANGED <<lastPrintedAt, progressLines>>
             /\ wpc' = "sleep3"
             /\ UNCHANGED <<wret, exit>>
       /\ case = "default" =>
             /\ lastOut' = {"state"}
             /\ lastPrintedAt' = now
             /\ wpc' = "sleep3"
             /\ UNCHANGED <<wret, exit, progressLines>>

\* One turn of the poll loop up to its sleep or its return.
DoWaitFetch ==
    /\ wpc = "fetch"
    /\ polls < MaxPolls
    /\ polls' = polls + 1
    /\ fetchedSlugs' = Append(fetchedSlugs, waitSlug)
    /\ \E answer \in LatestAnswers(now) : \E got \in {getLatestBuild(answer)} :
          /\ latestBuild' = got.build
          /\ waitErr' = got.err
          /\ IF got.err /= nil
             THEN /\ scenario' = 0 - 1
                  /\ UNCHANGED progressLines
                  /\ IF isHttpError(got.err)
                     THEN /\ lastOut' = {"neterr"}
                          /\ lastPrintedAt' = now
                          /\ wpc' = "sleep2"
                          /\ UNCHANGED <<wret, exit>>
                     ELSE IF got.err = errNoBuilds
                     THEN /\ Return(noResults, "nobuilds")
                          /\ UNCHANGED <<lastOut, lastPrintedAt>>
                     ELSE /\ Return(got.err, "error")
                          /\ UNCHANGED <<lastOut, lastPrintedAt>>
             ELSE IF waitsForTip(got.build)
             THEN /\ scenario' = 0 - 1
                  /\ lastOut' = {"tipwait"}
                  /\ lastPrintedAt' = now
                  /\ wpc' = "sleep5"
                  /\ UNCHANGED <<wret, exit, progressLines>>
             ELSE \E d \in {duration(got.build, now)} :
                     /\ scenario' = Follows(scenario, got.build, d)
                     /\ Classify(got.build, d)
    /\ UNCHANGED <<waitSlug, now, previousBuild>>
    /\ UNCHANGED <<ctxDone, proberVars, notWait>>
    /\ UNCHANGED <<command, firstErr, recentBuilds, opened>>

\* A sleep that waits for its timer alone.
SleepOutTheTimer(pc, seconds, e, by) ==
    /\ wpc = pc
    /\ \E delay \in Delays : now' = now + seconds * Second + delay
    /\ wpc' = "fetch"
    /\ UNCHANGED <<wret, exit>>
    /\ UNCHANGED <<waitSlug, lastPrintedAt, previousBuild, latestBuild, waitErr,
                   polls, lastOut, progressLines, fetchedSlugs, scenario>>
    /\ UNCHANGED <<ctxDone, proberVars, notWait>>
    /\ UNCHANGED <<command, firstErr, recentBuilds, opened>>

\* A sleep: the context is done, or the timer elapses.
Sleep(pc, seconds, e, by) ==
    /\ wpc = pc
    /\ IF ctxDone
       THEN /\ Return(e, by)
            /\ UNCHANGED now
       ELSE /\ \E delay \in Delays : now' = now + seconds * Second + delay
            /\ wpc' = "fetch"
            /\ UNCHANGED <<wret, exit>>
    /\ UNCHANGED <<waitSlug, lastPrintedAt, previousBuild, latestBuild, waitErr,
                   polls, lastOut, progressLines, fetchedSlugs, scenario>>
    /\ UNCHANGED <<ctxDone, proberVars, notWait>>
    /\ UNCHANGED <<command, firstErr, recentBuilds, opened>>

\* The sleep after a network error.
DoWaitSleep2 == Sleep("sleep2", 2, waitErr, "cancel2")

\* The sleep while the latest build is not of the tip.
DoWaitSleep5 == Sleep("sleep5", 5, waitErr, "cancel5")

\* The sleep between two polls.
DoWaitSleep3 == Sleep("sleep3", 3, Canceled, "cancel3")

(***************************************************************************)
(* doOpen: after the same first fetch and the same search for the pipeline *)
(* as doWait, its loop fetches until the latest build is of the tip and    *)
(* opens it.                                                               *)
(***************************************************************************)

\* One turn of doOpen's loop up to its sleep or its return.
DoOpenFetch ==
    /\ command = "open"
    /\ wpc \in {"previous", "fetch"}
    /\ polls < MaxPolls
    /\ polls' = polls + 1
    /\ fetchedSlugs' = Append(fetchedSlugs, waitSlug)
    /\ \E answer \in LatestAnswers(now) : \E got \in {getLatestBuild(answer)} :
          /\ latestBuild' = got.build
          /\ waitErr' = got.err
          /\ IF got.err /= nil
             THEN /\ UNCHANGED opened
                  /\ IF isHttpError(got.err)
                     THEN /\ lastOut' = {"neterr"}
                          /\ wpc' = "sleep2"
                          /\ UNCHANGED <<wret, exit>>
                     ELSE IF got.err = errNoBuilds
                     THEN /\ Return(Errorf("No results, are you sure there are tests for %s/%s?\n",
                                           <<"remote.Path", remoteRepoName>>), "nobuilds")
                          /\ UNCHANGED lastOut
                     ELSE /\ Return(got.err, "error")
                          /\ UNCHANGED lastOut
             ELSE IF got.build.Commit /= tip
             THEN /\ lastOut' = {"tipwait"}
                  /\ wpc' = "sleep5"
                  /\ UNCHANGED <<wret, exit, opened>>
             ELSE /\ lastOut' = {"open"}
                  /\ opened' = Append(opened, got.build)
                  /\ \E e \in {nil, Errorf("exec: not started", <<>>)} : Return(e, "open")
    /\ UNCHANGED <<waitSlug, now, lastPrintedAt, previousBuild, progressLines, scenario,
                   command, firstErr, recentBuilds>>
    /\ UNCHANGED <<ctxDone, proberVars, notWait>>

\* The sleeps of doOpen's loop: ctx.Err() is returned when the context is done.
DoOpenSleep ==
    /\ command = "open"
    /\ \/ Sleep("sleep2", 2, Canceled, "cancel2")
       \/ Sleep("sleep5", 5, Canceled, "cancel5")

(***************************************************************************)
(* The context of the command is cancelled.                                *)
(***************************************************************************)

CancelCtx ==
    /\ ~ctxDone
    /\ \/ rpc = "recv"
       \/ ppc = "loop"
       \/ wpc \notin {"idle", "returned"}
    /\ ctxDone' = TRUE
    /\ UNCHANGED <<resolverVars, listingVars, proberVars, waitVars, pureVars>>

(***************************************************************************)
(* normalizeRepo applied to one repository URL. A URL is put together from *)
(* white space, prefixes, a body and suffixes.                             *)
(***************************************************************************)

\* The most prefixes and the most suffixes a URL of the model carries.
MaxPrefixes == 2

MaxSuffixes == 3

SeqsUpTo(T, n) == UNION {[1..k -> T] : k \in 0..n}

RECURSIVE Flatten(_)
Flatten(ss) == IF ss = <<>> THEN <<>> ELSE Head(ss) \o Flatten(Tail(ss))

UpperGitAt == <<"G","I","T","@">>

UpperDotGit == <<".","G","I","T">>

PrefixTokens == {GitAt, UpperGitAt, Schemes[1], Schemes[2], Schemes[3]}

SuffixTokens == {DotGit, UpperDotGit, Slash}

UrlBodies ==
    { <<"G","i","t","H","u","b",".","c","o","m",":","U","s","e","r","/","R","e","p","o">>,
      <<"h",":","u",":","r",":","e">>,
      <<"h","/","o","/","r",".","g","i","t","-","t">>,
      <<"h","/","o","/","r">> }

RepoURLs ==
    [space : BOOLEAN,
     pre : SeqsUpTo(PrefixTokens, MaxPrefixes),
     body : UrlBodies,
     suf : SeqsUpTo(SuffixTokens, MaxSuffixes)]

\* The string of a URL.
Render(url) ==
    (IF url.space THEN <<" ">> ELSE <<>>)
    \o Flatten(url.pre) \o url.body \o Flatten(url.suf)
    \o (IF url.space THEN <<" ", "\n">> ELSE <<>>)

ApplyNormalizeRepo ==
    /\ fn = "normalizeRepo"
    /\ ~applied
    /\ fnResult' = normalizeRepo(Render(arg))
    /\ applied' = TRUE
    /\ UNCHANGED <<fn, arg>>
    /\ UNCHANGED <<ctxVars, resolverVars, listingVars, proberVars, waitVars>>

(***************************************************************************)
(* sameRepo and repoSimilarityScore applied to an organization, a slug and *)
(* the repository URL of a candidate pipeline.                             *)
(***************************************************************************)

\* The URLs of candidates: an optional prefix, host and organization, a
\* repository name and an optional suffix.
CandidateURLs ==
    {pre \o (IF host = <<>> THEN <<>>
             ELSE host \o (IF pre = GitAt THEN <<":">> ELSE Slash))
         \o (IF org = <<>> THEN <<>> ELSE org \o Slash) \o repo \o suf :
        pre \in {<<>>, Schemes[1], GitAt},
        host \in {<<>>, <<"h">>},
        org \in {<<>>, <<"o">>, <<"O">>, <<"p">>, <<"x", "o">>},
        repo \in {<<"r">>, <<"R">>, <<"x", "r">>, <<"r", "x">>, <<"x">>, <<>>},
        suf \in {<<>>, DotGit, UpperDotGit, Slash, Slash \o Slash}}
    \cup {<<"g","i","t","h","u","b",".","c","o","m","/","m","y","o","r","g","/","m","y","r","e","p","o">>,
          <<"m","y","r","e","p","o">>,
          <<"o","/","x","x","x","x","x","x","x","x","x","x","r">>,
          <<"o","/","x","x","x","x","x","x","x","x","x","x","x","r">>,
          <<"p","/","r","x","x","x","x","x","x","x","x","x","x","x">>}

\* The length of a long repository name.
LongName == 181

\* A repository name of that length.
LongRepo == [i \in 1..LongName |-> "r"]

\* The calls: organization and slug in lower and in mixed case, the
\* organization and slug of the tests, and a long repository name with the
\* candidates that name it with and without its organization.
ScoreCalls ==
    [org : {<<"o">>, <<"O">>}, slug : {<<"r">>, <<"R">>}, url : CandidateURLs]
    \cup [org : {<<"m","y","o","r","g">>}, slug : {<<"m","y","r","e","p","o">>}, url : CandidateURLs]
    \cup [org : {<<"o">>}, slug : {LongRepo},
          url : {LongRepo, <<"o">> \o Slash \o LongRepo, <<"h", "/", "o">> \o Slash \o LongRepo}]

ApplySameRepo ==
    /\ fn = "sameRepo"
    /\ ~applied
    /\ fnResult' = sameRepo(arg.org, arg.slug, arg.url)
    /\ applied' = TRUE
    /\ UNCHANGED <<fn, arg>>
    /\ UNCHANGED <<ctxVars, resolverVars, listingVars, proberVars, waitVars>>

ApplyScore ==
    /\ fn = "repoSimilarityScore"
    /\ ~applied
    /\ fnResult' = repoSimilarityScore(arg.org, arg.slug, arg.url)
    /\ applied' = TRUE
    /\ UNCHANGED <<fn, arg>>
    /\ UNCHANGED <<ctxVars, resolverVars, listingVars, proberVars, waitVars>>

(***************************************************************************)
(* FindBuildFailure.  A log is a sequence of bytes; the text that         *)
(* postCommandHookRe matches ("~~~ Running global post-command hook") is   *)
(* written as the one byte "P" and the text that runCommandRe matches      *)
(* ("~~~ Running commands") as the one byte "R".  Indices are those of the *)
(* code, from 0: log[lo:hi] is SubSeq(log, lo + 1, hi).                    *)
(***************************************************************************)

MaxLog == 6
MaxLines == 3

\* bytes.LastIndexByte(s, c) + 1: the last place of c in s, 0 when there is none.
LastIndex(s, c) ==
    LET at == {i \in 1..Len(s) : s[i] = c}
    IN  IF at = {} THEN 0 ELSE CHOOSE i \in at : \A j \in at : i >= j

\* The loop taken when the log has no post-command hook.
RECURSIVE firstLines(_, _, _, _)
firstLines(log, numOutputLines, count, newlineIdx) ==
    IF count >= numOutputLines
    THEN SubSeq(log, 1, newlineIdx)
    ELSE The({IF next = -1 THEN log
              ELSE firstLines(log, numOutputLines, count + 1, next) :
                next \in {newlineIdx + 1
                          + (Index(SubSeq(log, newlineIdx + 2, Len(log)), <<"\n">>) - 1)}})

\* The loop that walks back from the post-command hook at idx, and the
\* slice returned after it.
RECURSIVE lastLines(_, _, _, _, _)
lastLines(log, numOutputLines, idx, count, newlineIdx) ==
    LET region == IF newlineIdx > idx THEN SubSeq(log, 1, idx)
                  ELSE SubSeq(log, newlineIdx + 1, idx)
    IN  IF count >= numOutputLines
        THEN region
        ELSE The({IF newIdx = -1 THEN SubSeq(log, 1, idx)
                  ELSE IF Contains(SubSeq(log, newIdx + 2, newlineIdx), <<"R">>)
                       THEN region
                       ELSE lastLines(log, numOutputLines, idx, count + 1, newIdx) :
                    newIdx \in {LastIndex(SubSeq(log, 1, newlineIdx), "\n") - 1}})

FindBuildFailure(log, numOutputLines) ==
    IF Len(log) = 0 THEN log
    ELSE IF Index(log, <<"P">>) = 0
         THEN firstLines(log, numOutputLines, 0, 0)
         ELSE lastLines(log, numOutputLines, Index(log, <<"P">>) - 1, 0,
                        Index(log, <<"P">>) - 1)

\* The logs: every sequence of newlines, output bytes and markers.
Logs == SeqsUpTo({"\n", "a", "P", "R"}, MaxLog)

ApplyFindBuildFailure ==
    /\ fn = "FindBuildFailure"
    /\ ~applied
    /\ fnResult' = FindBuildFailure(arg.log, arg.numOutputLines)
    /\ applied' = TRUE
    /\ UNCHANGED <<fn, arg>>
    /\ UNCHANGED <<ctxVars, resolverVars, listingVars, proberVars, waitVars>>

(***************************************************************************)
(* FileConfig.Token.  An organization is a record of its Name (the key of  *)
(* f.Organizations), its Token and its GitRemotes.  The order in which Go  *)
(* ranges over a map is not fixed, so Token is the set of the results the  *)
(* call can give.                                                          *)
(***************************************************************************)

\* The config files: any of the organizations k, e and E, each with any of
\* the remotes g and G, the token of each its name after a "t".
FileConfigs ==
    {[Default |-> d,
      Organizations |-> [k \in DOMAIN r |->
                            [Name |-> k, Token |-> <<"t">> \o k, GitRemotes |-> r[k]]]] :
        d \in {<<>>, <<"k">>, <<"e">>, <<"g">>},
        r \in UNION {[K -> SUBSET {<<"g">>, <<"G">>}] :
                        K \in SUBSET {<<"k">>, <<"e">>, <<"E">>}}}

Token(f, gitRemote) ==
    LET all == {f.Organizations[k] : k \in DOMAIN f.Organizations}
        remotes == UNION {org.GitRemotes : org \in all}
        \* the maps that the loop over the organizations can leave: a remote
        \* that several organizations list maps to the one ranged over last
        OrgsByRemote == {m \in [remotes -> all] : \A rm \in remotes : rm \in m[rm].GitRemotes}
        \* getCaseInsensitiveOrg(key, orgs): the organizations it can find,
        \* none when ok is false
        getCaseInsensitiveOrg(key, orgs) ==
            IF ToLower(key) \in DOMAIN orgs
            THEN {orgs[ToLower(key)]}
            ELSE {orgs[k] : k \in {j \in DOMAIN orgs : ToLower(j) = ToLower(key)}}
        found(orgs) == {[token |-> org.Token, err |-> nil] : org \in orgs}
    IN  UNION {
          IF getCaseInsensitiveOrg(gitRemote, m) /= {}
          THEN found(getCaseInsensitiveOrg(gitRemote, m))
          ELSE IF f.Default /= <<>>
          THEN IF getCaseInsensitiveOrg(f.Default, m) /= {}
               THEN found(getCaseInsensitiveOrg(f.Default, m))
               ELSE IF getCaseInsensitiveOrg(f.Default, f.Organizations) /= {}
               THEN found(getCaseInsensitiveOrg(f.Default, f.Organizations))
               ELSE {[token |-> <<>>,
                      err |-> Errorf("Couldn't find an organization for git remote %s in the config. Go to", <<gitRemote>>)]}
          ELSE {[token |-> <<>>,
                 err |-> Errorf("Couldn't find an organization for git remote %s in the config. Set one of your organizations to be the default", <<gitRemote>>)]} :
          m \in OrgsByRemote}

ApplyToken ==
    /\ fn = "Token"
    /\ ~applied
    /\ \E r \in Token(arg.f, arg.gitRemote) : fnResult' = r
    /\ applied' = TRUE
    /\ UNCHANGED <<fn, arg>>
    /\ UNCHANGED <<ctxVars, resolverVars, listingVars, proberVars, waitVars>>

(***************************************************************************)
(* isHttpError applied to one error.                                       *)
(***************************************************************************)

\* The errors: nil, errors of the program and of the API, errors of the
\* net package that are or are not timeouts, and each of them in a url.Error.
Errors ==
    LET plain == {nil, errNoBuilds, Canceled}
                 \cup {BuildkiteError(st) : st \in {401, 404, 429, 500}}
                 \cup {OpError(op, net, t) : op \in {"dial", "read", "write"},
                                             net \in {"tcp", "udp", "unix"},
                                             t \in BOOLEAN}
                 \cup {DNSError(t) : t \in BOOLEAN}
                 \cup {NetError(text, t) :
                         text \in {"context deadline exceeded", "net/http: timeout awaiting response headers"},
                         t \in BOOLEAN}
    IN  plain \cup {UrlError(e) : e \in plain \ {nil}}

ApplyIsHttpError ==
    /\ fn = "isHttpError"
    /\ ~applied
    /\ fnResult' = isHttpError(arg)
    /\ applied' = TRUE
    /\ UNCHANGED <<fn, arg>>
    /\ UNCHANGED <<ctxVars, resolverVars, listingVars, proberVars, waitVars>>

\* The durations a build may have run when shouldPrint is asked: on either
\* side of each place where the interval changes, for each previous build.
ElapsedDurations ==
    {m * Minute - j : m \in {0, 1, 2, 4, 5, 6, 22, 25, 27, 29, 31}, j \in {0, 1}}

\* The time since the last line was printed: on either side of each interval.
PrintGaps ==
    {s * Second + j : s \in {10, 15, 20, 30, 120, 180}, j \in {0, 1}}

\* shouldPrint is asked twice at the same instant, arg.gap after the last
\* line, for a build that has run arg.d1 and for one that has run arg.d2.
ApplyShouldPrint ==
    /\ fn = "shouldPrint"
    /\ ~applied
    /\ fnResult' = <<shouldPrint(0, arg.d1, NoBuild, arg.previous, arg.gap),
                     shouldPrint(0, arg.d2, NoBuild, arg.previous, arg.gap)>>
    /\ applied' = TRUE
    /\ UNCHANGED <<fn, arg>>
    /\ UNCHANGED <<ctxVars, resolverVars, listingVars, proberVars, waitVars>>

(***************************************************************************)
(* The specifications: one for each part of the program, the other parts   *)
(* at rest.                                                                *)
(***************************************************************************)

IdlePure ==
    /\ fn = ""
    /\ arg = <<>>
    /\ fnResult = <<>>
    /\ applied = FALSE

IdleListing ==
    /\ listing = <<>>
    /\ produced = <<>>
    /\ producedBy = "idle"

IdleWait ==
    /\ wpc = "idle"
    /\ waitSlug = remoteRepoName
    /\ now = 0
    /\ lastPrintedAt = ZeroTime
    /\ previousBuild = NoBuild
    /\ latestBuild = NoBuild
    /\ waitErr = nil
    /\ wret = nil
    /\ polls = 0
    /\ lastOut = {}
    /\ progressLines = 0
    /\ fetchedSlugs = <<>>
    /\ scenario = 0 - 1
    /\ exit = ""
    /\ command = ""
    /\ firstErr = nil
    /\ recentBuilds = <<>>
    /\ opened = <<>>

IdleResolver ==
    /\ cancelled = [t \in Tasks |-> FALSE]
    /\ tpc = [t \in Tasks |-> "idle"]
    /\ res = [t \in Tasks |-> NoResult]
    /\ candidatesC = <<>>
    /\ pagesC = 0
    /\ closed = FALSE
    /\ rpc = "idle"
    /\ allCandidates = <<>>
    /\ canUseGraphQL = TRUE
    /\ ret = NoReturn
    /\ received = <<>>
    /\ accepted = <<>>
    /\ firstAdopted = <<>>
    /\ cancels = {}

\* findPipelineSlugs has started its three tasks and its consumer.
InitResolver ==
    /\ ctxDone = FALSE
    /\ cancelled = [t \in Tasks |-> FALSE]
    /\ tpc = [t \in Tasks |-> "call"]
    /\ res = [t \in Tasks |-> NoResult]
    /\ candidatesC = <<>>
    /\ pagesC = 0
    /\ closed = FALSE
    /\ rpc = "recv"
    /\ allCandidates = <<>>
    /\ canUseGraphQL = TRUE
    /\ ret = NoReturn
    /\ received = <<>>
    /\ accepted = <<>>
    /\ firstAdopted = <<>>
    /\ cancels = {}
    /\ IdleListing
    /\ IdleProber
    /\ IdleWait
    /\ IdlePure

NextResolver ==
    \/ TaskACall
    \/ TaskBCall
    \/ TaskCCall
    \/ \E t \in Tasks : TaskSend(t)
    \/ \E t \in Tasks : TaskSkip(t)
    \/ CloseResults
    \/ ResolverReturn
    \/ CancelCtx

SpecResolver == InitResolver /\ [][NextResolver]_vars

\* Every API call returns and every goroutine that can take a step takes
\* one: a task at its select proceeds by one case or the other, the closing
\* goroutine closes once the tasks are done, the consumer leaves its loop on
\* the closed channel. Nothing obliges the caller to cancel its context.
SpecResolverLive ==
    /\ SpecResolver
    /\ WF_vars(TaskACall)
    /\ WF_vars(TaskBCall)
    /\ WF_vars(TaskCCall)
    /\ \A t \in Tasks : WF_vars(TaskSend(t) \/ TaskSkip(t))
    /\ WF_vars(CloseResults)
    /\ WF_vars(ResolverReturn)

\* A task is about to score and sort a listing.
InitListing ==
    /\ ctxDone = FALSE
    /\ listing \in AllListings
    /\ produced = <<>>
    /\ producedBy = ""
    /\ IdleResolver
    /\ IdleProber
    /\ IdleWait
    /\ IdlePure

NextListing ==
    \/ ProduceA
    \/ ProduceC

SpecListing == InitListing /\ [][NextListing]_vars

\* tryPipelineCandidates is entered with a list of candidates.
InitProber ==
    /\ ctxDone = FALSE
    /\ ppc = "loop"
    /\ probeCandidates \in {sortByScore(scoreListing(l, FALSE)) : l \in AllListings}
    /\ probeIdx = 1
    /\ probeRet = NoProbeReturn
    /\ probeFetched = <<>>
    /\ IdleResolver
    /\ IdleListing
    /\ IdleWait
    /\ IdlePure

NextProber ==
    \/ ProbeTry
    \/ ProbeFails
    \/ CancelCtx

SpecProber == InitProber /\ [][NextProber]_vars

IdleAll ==
    /\ ctxDone = FALSE
    /\ IdleResolver
    /\ IdleListing
    /\ IdleProber
    /\ IdleWait

\* normalizeRepo is called with a URL.
InitNormalize ==
    /\ fn = "normalizeRepo"
    /\ arg \in RepoURLs
    /\ fnResult = <<>>
    /\ applied = FALSE
    /\ IdleAll

SpecNormalize == InitNormalize /\ [][ApplyNormalizeRepo]_vars

\* sameRepo or repoSimilarityScore is called.
InitScore ==
    /\ fn \in {"sameRepo", "repoSimilarityScore"}
    /\ arg \in ScoreCalls
    /\ fnResult = <<>>
    /\ applied = FALSE
    /\ IdleAll

SpecScore == InitScore /\ [][ApplySameRepo \/ ApplyScore]_vars

\* FindBuildFailure is called.
InitFailure ==
    /\ fn = "FindBuildFailure"
    /\ arg \in [log : Logs, numOutputLines : 1..MaxLines]
    /\ fnResult = <<>>
    /\ applied = FALSE
    /\ IdleAll

SpecFailure == InitFailure /\ [][ApplyFindBuildFailure]_vars

\* Token is called with the path of a git remote.
InitToken ==
    /\ fn = "Token"
    /\ arg \in [f : FileConfigs, gitRemote : {<<"k">>, <<"e">>, <<"g">>, <<"x">>}]
    /\ fnResult = <<>>
    /\ applied = FALSE
    /\ IdleAll

SpecToken == InitToken /\ [][ApplyToken]_vars

\* isHttpError is called.
InitHttpError ==
    /\ fn = "isHttpError"
    /\ arg \in Errors
    /\ fnResult = <<>>
    /\ applied = FALSE
    /\ IdleAll

SpecHttpError == InitHttpError /\ [][ApplyIsHttpError]_vars

\* shouldPrint is called with or without a previous build.
InitShouldPrint ==
    /\ fn = "shouldPrint"
    /\ arg \in {a \in [previous : {NoBuild, P30, P7, P2}, d1 : ElapsedDurations,
                       d2 : ElapsedDurations, gap : PrintGaps] : a.d1 <= a.d2}
    /\ fnResult = <<>>
    /\ applied = FALSE
    /\ IdleAll

SpecShouldPrint == InitShouldPrint /\ [][ApplyShouldPrint]_vars

\* doWait is entered.
Init ==
    /\ ctxDone = FALSE
    /\ wpc = "start"
    /\ waitSlug = remoteRepoName
    /\ now = 0
    /\ lastPrintedAt = ZeroTime
    /\ previousBuild = NoBuild
    /\ latestBuild = NoBuild
    /\ waitErr = nil
    /\ wret = nil
    /\ polls = 0
    /\ lastOut = {}
    /\ progressLines = 0
    /\ fetchedSlugs = <<>>
    /\ scenario = 0 - 1
    /\ exit = ""
    /\ command = "wait"
    /\ firstErr = nil
    /\ recentBuilds = <<>>
    /\ opened = <<>>
    /\ IdleResolver
    /\ IdleListing
    /\ IdleProber
    /\ IdlePure

Next ==
    \/ DoWaitStart
    \/ DoWaitResolve
    \/ ProbeTry
    \/ ProbeFails
    \/ DoWaitProbed
    \/ DoWaitPrevious
    \/ DoWaitFetch
    \/ DoWaitSleep2
    \/ DoWaitSleep5
    \/ DoWaitSleep3
    \/ CancelCtx

Spec == Init /\ [][Next]_vars

\* The API comes to answer with a build of the tip that has passed, failed
\* or is failing: the last fetch the bound of the model allows finds one.
LastFetchSettles ==
    polls' = MaxPolls
       => /\ waitErr' = nil
          /\ latestBuild'.Commit = tip
          /\ latestBuild'.State \in {"passed", "failed", "failing"}

\* doWait runs on: the requests it makes return (each has a timeout of its
\* own), its timers fire, and it takes every step it can take. Nothing
\* obliges the caller to cancel the context.
SpecLive ==
    /\ Init
    /\ [][Next /\ LastFetchSettles]_vars
    /\ WF_vars(DoWaitStart)
    /\ WF_vars(DoWaitResolve)
    /\ WF_vars(ProbeTry \/ ProbeFails)
    /\ WF_vars(DoWaitProbed)
    /\ WF_vars(DoWaitPrevious)
    /\ WF_vars(DoWaitFetch)
    /\ WF_vars(DoWaitSleep2)
    /\ WF_vars(DoWaitSleep5)
    /\ WF_vars(DoWaitSleep3)

\* doWait or doOpen is entered.
InitCommands ==
    /\ ctxDone = FALSE
    /\ wpc = "start"
    /\ waitSlug = remoteRepoName
    /\ now = 0
    /\ lastPrintedAt = ZeroTime
    /\ previousBuild = NoBuild
    /\ latestBuild = NoBuild
    /\ waitErr = nil
    /\ wret = nil
    /\ polls = 0
    /\ lastOut = {}
    /\ progressLines = 0
    /\ fetchedSlugs = <<>>
    /\ scenario = 0 - 1
    /\ exit = ""
    /\ command \in {"wait", "open"}
    /\ firstErr = nil
    /\ recentBuilds = <<>>
    /\ opened = <<>>
    /\ IdleResolver
    /\ IdleListing
    /\ IdleProber
    /\ IdlePure

SpecCommands ==
    InitCommands
    /\ [][\/ DoWaitStart
          \/ DoWaitResolve
          \/ ProbeTry
          \/ ProbeFails
          \/ DoWaitProbed
          \/ command = "wait" /\ DoWaitPrevious
          \/ command = "wait" /\ DoWaitFetch
          \/ command = "wait" /\ DoWaitSleep2
          \/ command = "wait" /\ DoWaitSleep5
          \/ command = "wait" /\ DoWaitSleep3
          \/ DoOpenFetch
          \/ DoOpenSleep
          \/ CancelCtx]_vars

(***************************************************************************)
(* Properties of findPipelineSlugs.                                        *)
(***************************************************************************)

\* C1: the list findPipelineSlugs holds, and returns, is the candidate list
\* of the first result the consumer accepted; no result received after that
\* acceptance replaces it.
C1_FirstAcceptedIsFinal ==
    accepted /= <<>> =>
        /\ allCandidates = firstAdopted
        /\ rpc = "returned" => ret.candidates = firstAdopted

\* C2: when the consumer received B's result saying, without error, that
\* GraphQL cannot be used, and after it C's result with candidates, C's
\* candidates are not adopted (what is held and returned is A's accepted
\* list or nothing) and C's result cancels no task.
C2_RejectedAfterIncapable ==
    \A i, j \in 1..Len(received) :
        ( /\ i < j
          /\ received[i].RequestType = "B"
          /\ received[i].Error = nil
          /\ received[i].CanGraphQL = ""
          /\ received[j].RequestType = "C"
          /\ received[j].Error = nil
          /\ Len(received[j].Candidates) > 0 )
        => /\ \A t \in Tasks : <<"C", t>> \notin cancels
           /\ \A k \in 1..Len(accepted) : accepted[k] = "A"
           /\ \/ accepted = <<>> /\ allCandidates = <<>>
              \/ \E k \in 1..Len(received) :
                    /\ received[k].RequestType = "A"
                    /\ received[k].Error = nil
                    /\ allCandidates = received[k].Candidates
           /\ rpc = "returned" => ret = findPipelineSlugsReturn(allCandidates)

\* C2: B's refusal then C's candidates were received, A delivered nothing
\* to adopt, and findPipelineSlugs returned.
C2_Witness ==
    /\ rpc = "returned"
    /\ Len(received) >= 2
    /\ received[1].RequestType = "B"
    /\ received[1].Error = nil
    /\ received[1].CanGraphQL = ""
    /\ received[2].RequestType = "C"
    /\ received[2].Error = nil
    /\ Len(received[2].Candidates) > 0
    /\ ret.err = notFound

\* C8: findPipelineSlugs returns the not-found error exactly when no result
\* with candidates was accepted, and otherwise a non-empty list with a nil
\* error; it never returns an empty list without an error.
C8_NotFoundIffNothingAccepted ==
    rpc = "returned" =>
        /\ ret.err \in {nil, notFound}
        /\ ret.err = notFound <=> accepted = <<>>
        /\ ret.err = nil <=> Len(ret.candidates) > 0
        /\ ret.err = notFound => ret.candidates = <<>>

\* C8: all three results were received, none was accepted, and the error is
\* returned.
C8_Witness ==
    /\ rpc = "returned"
    /\ Len(received) = 3
    /\ accepted = <<>>
    /\ ret.err = notFound

(***************************************************************************)
(* Properties of the candidate lists of tasks A and C.                     *)
(***************************************************************************)

\* C9: the candidate list a task produces is sorted by descending score, and
\* candidates of equal score keep the order they were found in.
C9_SortedStable ==
    producedBy \in {"A", "C"} =>
        /\ \A i, j \in 1..Len(produced) : i < j => produced[i].Score >= produced[j].Score
        /\ \A i, j \in 1..Len(produced) :
              (i < j /\ produced[i].Score = produced[j].Score) =>
                 \E a, b \in 1..Len(listing) :
                    /\ a < b
                    /\ listing[a].Slug = produced[i].Slug
                    /\ listing[b].Slug = produced[j].Slug

\* C9: the candidate list a task produces is sorted by descending score and
\* holds exactly the candidates found, each once; the order among candidates
\* of equal score is not determined by the order they were found in.
C9_SortedPermutation ==
    producedBy \in {"A", "C"} =>
        LET found == scoreListing(listing, producedBy = "C")
        IN  /\ \A i, j \in 1..Len(produced) :
                  i < j => produced[i].Score >= produced[j].Score
            /\ Len(produced) = Len(found)
            /\ \A i \in 1..Len(found) : \E j \in 1..Len(produced) : produced[j] = found[i]
            /\ \A i, j \in 1..Len(produced) : i /= j => produced[i] /= produced[j]

\* C9: a produced list in which two candidates of equal score stand in the
\* reverse of the order they were found in.
C9_Witness ==
    /\ producedBy \in {"A", "C"}
    /\ \E i, j \in 1..Len(produced) : \E a, b \in 1..Len(listing) :
          /\ i < j
          /\ produced[i].Score = produced[j].Score
          /\ b < a
          /\ listing[a].Slug = produced[i].Slug
          /\ listing[b].Slug = produced[j].Slug

(***************************************************************************)
(* Properties of tryPipelineCandidates.                                    *)
(***************************************************************************)

\* C7: tryPipelineCandidates returns the slug of the first candidate, in the
\* order given, whose fetch of the latest build succeeds: every candidate
\* before it was fetched and failed, and no candidate after it is fetched.
C7_FirstWithBuilds ==
    /\ \A k \in 1..Len(probeFetched) :
          /\ k <= Len(probeCandidates)
          /\ probeFetched[k].slug = probeCandidates[k].Slug
          /\ k < Len(probeFetched) => probeFetched[k].err /= nil
    /\ (ppc = "returned" /\ probeRet.err = nil) =>
          /\ probeFetched /= <<>>
          /\ probeFetched[Len(probeFetched)].err = nil
          /\ probeRet.slug = probeCandidates[Len(probeFetched)].Slug
    /\ (ppc = "returned" /\ probeRet.err /= nil) =>
          /\ Len(probeFetched) = Len(probeCandidates)
          /\ \A k \in 1..Len(probeFetched) : probeFetched[k].err /= nil
          /\ probeRet = [slug |-> "", err |-> noCandidateHasBuilds]

\* C7: of three candidates the first has no builds and the second has: the
\* second is returned and the third was not fetched.
C7_Witness ==
    /\ ppc = "returned"
    /\ Len(probeCandidates) = 3
    /\ Len(probeFetched) = 2
    /\ probeFetched[1].err = errNoBuilds
    /\ probeFetched[2].err = nil
    /\ probeRet = [slug |-> probeCandidates[2].Slug, err |-> nil]

(***************************************************************************)
(* Properties of doWait.                                                   *)
(***************************************************************************)

\* C3: doWait returns nil only after a fetch of the loop returned a build of
\* the tip in state passed; every other return carries an error.
C3_NilOnlyWhenPassed ==
    wpc = "returned" =>
        /\ wret = nil =>
              /\ polls > 0
              /\ waitErr = nil
              /\ latestBuild.Commit = tip
              /\ latestBuild.State = "passed"
        /\ exit /= "passed" => wret /= nil

\* C4: when the context is done during one of the three sleeps, doWait
\* returns from the sleep with an error.
C4_CancelledSleepReturnsError ==
    exit \in {"cancel2", "cancel5", "cancel3"} => wret /= nil

\* C5: a turn of the loop that fetched a build of another commit than the
\* tip writes only the wait-for-tip line and goes to the 5 s sleep: no
\* summary, notification, progress or state line, no return; and doWait
\* never reports a build passed or failed that is not of the tip.
C5_NoClassificationBeforeTip ==
    /\ [](exit \in {"passed", "failed"} => latestBuild.Commit = tip)
    /\ [][(wpc = "fetch" /\ polls' = polls + 1 /\ waitErr' = nil
             /\ latestBuild'.Commit /= tip)
          => /\ wpc' = "sleep5"
             /\ lastOut' = {"tipwait"}
             /\ progressLines' = progressLines
             /\ wret' = wret
             /\ exit' = exit]_vars

\* C5: the loop fetched a passed build of an older commit and waits.
C5_Witness ==
    /\ wpc = "sleep5"
    /\ waitErr = nil
    /\ latestBuild.Commit /= tip
    /\ latestBuild.State = "passed"

\* C6: once a fetch of the loop returned a build of the tip in state failed
\* or failing, doWait has returned the error that names the branch, and no
\* build is fetched after that.
C6_FailedStops ==
    /\ []((polls > 0 /\ waitErr = nil /\ latestBuild.Commit = tip
             /\ latestBuild.State \in {"failed", "failing"})
          => /\ wpc = "returned"
             /\ exit = "failed"
             /\ wret = buildFailed
             /\ wret /= nil
             /\ \E k \in 1..Len(wret.args) : wret.args[k] = branch)
    /\ [][exit = "failed" => fetchedSlugs' = fetchedSlugs]_vars

\* C6: the second fetch of the loop returned the tip failing.
C6_Witness ==
    /\ wpc = "returned"
    /\ polls = 2
    /\ latestBuild.Commit = tip
    /\ latestBuild.State = "failing"
    /\ wret = buildFailed

\* C10: with a reference build of 30 minutes and the fetches returning the
\* tip running at 5 minutes, running at 9 minutes and then passed, one
\* progress line is printed at the first fetch, one at the second and none
\* at the third.
C10_ScheduleExample ==
    /\ scenario = 1 => progressLines = 1 /\ lastOut = {"progress"}
    /\ scenario = 2 => progressLines = 2 /\ lastOut = {"progress"}
    /\ scenario = 3 => progressLines = 2 /\ "progress" \notin lastOut

\* C10: the example has run to its end.
C10_Witness ==
    /\ scenario = 3
    /\ wpc = "returned"
    /\ exit = "passed"
    /\ polls = 3
    /\ previousBuild.FinishedAt.Time - previousBuild.StartedAt = 30 * Minute

(***************************************************************************)
(* Properties of normalizeRepo.                                            *)
(***************************************************************************)

\* C11: normalizeRepo recognises the git@ prefix and the .git suffix in any
\* letter case: a URL and its lower-case form normalize to the same string,
\* and GIT@GitHub.com:User/Repo.GIT normalizes to github.com/user/repo.
C11_CaseInsensitive ==
    (fn = "normalizeRepo" /\ applied) =>
        /\ fnResult = normalizeRepo(ToLower(Render(arg)))
        /\ (arg.pre = <<UpperGitAt>> /\ arg.suf = <<UpperDotGit>> /\ ~arg.space
              /\ ToLower(arg.body) = <<"g","i","t","h","u","b",".","c","o","m",":","u","s","e","r","/","r","e","p","o">>)
           => fnResult = <<"g","i","t","h","u","b",".","c","o","m","/","u","s","e","r","/","r","e","p","o">>

\* C12: of two scheme prefixes in front of a URL only the first is stripped;
\* the second is kept.
C12_AtMostOneScheme ==
    (fn = "normalizeRepo" /\ applied /\ Len(arg.pre) = 2
        /\ \A k \in 1..2 : \E i \in 1..3 : arg.pre[k] = Schemes[i])
    => fnResult = arg.pre[2] \o normalizeRepo(Render([arg EXCEPT !.pre = <<>>]))

\* C12: of two scheme prefixes in front of a URL the first is stripped, and
\* the second is stripped as well exactly when it comes later than the first
\* in the order https://, http://, ssh://; otherwise the second is kept.
C12_SchemesInTurn ==
    (fn = "normalizeRepo" /\ applied /\ Len(arg.pre) = 2
        /\ \A k \in 1..2 : \E i \in 1..3 : arg.pre[k] = Schemes[i])
    => LET i1 == CHOOSE i \in 1..3 : arg.pre[1] = Schemes[i]
           i2 == CHOOSE i \in 1..3 : arg.pre[2] = Schemes[i]
           rest == normalizeRepo(Render([arg EXCEPT !.pre = <<>>]))
       IN  fnResult = IF i2 > i1 THEN rest ELSE arg.pre[2] \o rest

\* C12: https://http:// in front of a URL, and both were stripped.
C12_Witness ==
    /\ fn = "normalizeRepo"
    /\ applied
    /\ arg.pre = <<Schemes[1], Schemes[2]>>
    /\ arg.suf = <<>>
    /\ fnResult = ToLower(arg.body)

\* C13: normalizeRepo removes one trailing .git if there is one, then one
\* trailing / if there is one, and nothing more of the end of the URL; of a
\* git@ address it turns the first colon into a slash and no other.
C13_OneSuffixOneColon ==
    (fn = "normalizeRepo" /\ applied /\ arg.pre \in {<<>>, <<GitAt>>}) =>
        LET suf1 == IF arg.suf /= <<>> /\ arg.suf[Len(arg.suf)] = DotGit
                    THEN SubSeq(arg.suf, 1, Len(arg.suf) - 1) ELSE arg.suf
            suf2 == IF suf1 /= <<>> /\ suf1[Len(suf1)] = Slash
                    THEN SubSeq(suf1, 1, Len(suf1) - 1) ELSE suf1
            colon == CHOOSE i \in 1..Len(arg.body) :
                        /\ arg.body[i] = ":"
                        /\ \A j \in 1..(i - 1) : arg.body[j] /= ":"
            body == IF arg.pre = <<GitAt>> /\ \E i \in 1..Len(arg.body) : arg.body[i] = ":"
                    THEN [arg.body EXCEPT ![colon] = "/"] ELSE arg.body
        IN  fnResult = ToLower(body \o Flatten(suf2))

\* C13: a git@ address with three colons and .git.git/ at its end.
C13_Witness ==
    /\ fn = "normalizeRepo"
    /\ applied
    /\ arg.pre = <<GitAt>>
    /\ arg.body = <<"h",":","u",":","r",":","e">>
    /\ arg.suf = <<DotGit, DotGit, Slash>>
    /\ fnResult = <<"h","/","u",":","r",":","e",".","g","i","t",".","g","i","t">>

(***************************************************************************)
(* Properties of sameRepo and repoSimilarityScore.                         *)
(***************************************************************************)

\* C14: the score is 1000 whenever the normalized candidate equals org/slug
\* or ends with "/" org/slug, and the letter case of the candidate URL does
\* not matter: a URL scores what its lower-case form scores.
C14_ExactScoreAnyCase ==
    (fn = "repoSimilarityScore" /\ applied) =>
        LET userRepo == arg.org \o Slash \o arg.slug
            normalized == normalizeRepo(arg.url)
        IN  /\ (normalized = userRepo \/ HasSuffix(normalized, Slash \o userRepo))
                  => fnResult = 1000
            /\ fnResult = repoSimilarityScore(arg.org, arg.slug, ToLower(arg.url))

\* C15: the score is 0 exactly when the candidate is neither a same-repo
\* match nor has a last path segment that contains the repository name.
C15_ZeroIffNoMatch ==
    (fn = "repoSimilarityScore" /\ applied) =>
        LET parts == Split(TrimSuffix(normalizeRepo(arg.url), Slash), "/")
        IN  fnResult > 0 <=>
               \/ sameRepo(arg.org, arg.slug, arg.url)
               \/ Contains(parts[Len(parts)], arg.slug)

\* C15: the score is positive exactly when the candidate is a same-repo
\* match, or has at least two path segments the last of which contains the
\* repository name; it is 0 otherwise.
C15_ZeroIffNoMatchOfTwoSegments ==
    (fn = "repoSimilarityScore" /\ applied) =>
        LET parts == Split(TrimSuffix(normalizeRepo(arg.url), Slash), "/")
        IN  /\ fnResult >= 0
            /\ fnResult > 0 <=>
                  \/ sameRepo(arg.org, arg.slug, arg.url)
                  \/ Len(parts) >= 2 /\ Contains(parts[Len(parts)], arg.slug)

\* C15: a candidate of one segment that contains the repository name and
\* scores 0.
C15_Witness ==
    /\ fn = "repoSimilarityScore"
    /\ applied
    /\ arg.org = <<"o">>
    /\ arg.slug = <<"r">>
    /\ arg.url = <<"x", "r">>
    /\ fnResult = 0

\* C16: sameRepo holds exactly when the normalized candidate equals
\* org/slug, or ends with "/" org/slug, or org/slug ends with "/" and the
\* normalized candidate.
C16_SameRepoIffNormalized ==
    (fn = "sameRepo" /\ applied) =>
        LET userRepo == arg.org \o Slash \o arg.slug
            normalized == normalizeRepo(arg.url)
        IN  fnResult <=>
               \/ normalized = userRepo
               \/ HasSuffix(normalized, Slash \o userRepo)
               \/ HasSuffix(userRepo, Slash \o normalized)

\* C16: sameRepo holds exactly when the last two path segments of the
\* normalized candidate, less one more "/" at its end, are the organization
\* and the slug, or that candidate is the slug alone; the organization and the slug are compared as they are
\* with the lower-cased candidate, so that a slug in mixed case never
\* matches, and an organization in mixed case matches no candidate that
\* names an organization.
C16_SameRepoBySegments ==
    (fn = "sameRepo" /\ applied) =>
        LET parts == Split(TrimSuffix(normalizeRepo(arg.url), Slash), "/")
            n == Len(parts)
        IN  /\ fnResult <=>
                  \/ n >= 2 /\ parts[n - 1] = arg.org /\ parts[n] = arg.slug
                  \/ n = 1 /\ parts[1] = arg.slug
            /\ ToLower(arg.slug) /= arg.slug => ~fnResult
            /\ (ToLower(arg.org) /= arg.org /\ n >= 2) => ~fnResult

\* C16: a candidate that ends with two "/" matches, and the same
\* organization in mixed case does not match its lower-case URL.
C16_Witness ==
    /\ fn = "sameRepo"
    /\ applied
    /\ arg.slug = <<"r">>
    /\ \/ /\ arg.org = <<"o">>
          /\ arg.url = <<"h", "/", "o", "/", "r", "/", "/">>
          /\ fnResult = TRUE
       \/ /\ arg.org = <<"O">>
          /\ arg.url = <<"h", "/", "o", "/", "r">>
          /\ fnResult = FALSE

(***************************************************************************)
(* Properties of FindBuildFailure.                                         *)
(***************************************************************************)

\* C17: on a log that is not empty and has no post-command hook, the result
\* is the first numOutputLines lines of the log (with or without the
\* newline that ends them), and the whole log when the log has fewer
\* newlines than numOutputLines.
C17_FirstLinesOrWhole ==
    (fn = "FindBuildFailure" /\ applied /\ arg.log /= <<>>
        /\ ~Contains(arg.log, <<"P">>)) =>
        LET log == arg.log
            n == arg.numOutputLines
        IN  IF Count(log, "\n") >= n
            THEN \E i \in 1..Len(log) :
                    /\ log[i] = "\n"
                    /\ Count(SubSeq(log, 1, i), "\n") = n
                    /\ fnResult \in {SubSeq(log, 1, i - 1), SubSeq(log, 1, i)}
            ELSE fnResult = log

\* C18: on a log that has no post-command hook, the result is the end of
\* the log: its last numOutputLines lines (the newline that ends the log
\* counted or not), and the whole log when it has no more lines than that.
C18_LastLines ==
    (fn = "FindBuildFailure" /\ applied /\ arg.log /= <<>>
        /\ ~Contains(arg.log, <<"P">>)) =>
        LET log == arg.log
            n == arg.numOutputLines
            After(k) ==
                IF Count(log, "\n") < k THEN log
                ELSE The({SubSeq(log, i + 1, Len(log)) :
                            i \in {j \in 1..Len(log) :
                                     /\ log[j] = "\n"
                                     /\ Count(SubSeq(log, j, Len(log)), "\n") = k}})
        IN  fnResult \in {After(n), After(n + 1)}

\* C19: on a log with a post-command hook, the result is a slice of the log
\* that ends just before the hook, holds at most numOutputLines newlines,
\* and holds no run-command marker when one of the numOutputLines - 1 lines
\* before the line of the hook has one.
C19_RegionBeforeHook ==
    (fn = "FindBuildFailure" /\ applied /\ Contains(arg.log, <<"P">>)) =>
        LET log == arg.log
            n == arg.numOutputLines
            idx == Index(log, <<"P">>)
            lines == Split(SubSeq(log, 1, idx - 1), "\n")
            m == Len(lines)
        IN  /\ \E start \in 1..idx : fnResult = SubSeq(log, start, idx - 1)
            /\ Count(fnResult, "\n") <= n
            /\ (\E k \in max(1, m - n + 1)..(m - 1) : Contains(lines[k], <<"R">>))
                  => ~Contains(fnResult, <<"R">>)

(***************************************************************************)
(* Properties of FileConfig.Token.                                         *)
(***************************************************************************)

\* C20: when one organization has the name of the git remote and no
\* organization lists the git remote among its git_remotes, Token returns
\* the token of that organization and no error; and the token of the
\* default organization is returned only when no organization matches the
\* git remote by name or by mapping: a token returned when one matches is
\* the token of one that matches.
C20_TokenByName ==
    (fn = "Token" /\ applied) =>
        LET orgs == arg.f.Organizations
            same(a, b) == ToLower(a) = ToLower(b)
            byName == {k \in DOMAIN orgs : same(k, arg.gitRemote)}
            byMapping == {k \in DOMAIN orgs :
                            \E rm \in orgs[k].GitRemotes : same(rm, arg.gitRemote)}
        IN  /\ (byMapping = {} /\ Cardinality(byName) = 1)
                  => \E k \in byName : fnResult = [token |-> orgs[k].Token, err |-> nil]
            /\ (fnResult.err = nil /\ byName \cup byMapping /= {})
                  => \E k \in byName \cup byMapping : fnResult.token = orgs[k].Token

(***************************************************************************)
(* Properties of the tasks and the channel of findPipelineSlugs.           *)
(***************************************************************************)

\* C21: the consumer receives at most one result of each task, and once the
\* channel is closed every task has finished: none is calling the API or
\* at its select, so none sends on the closed channel.
C21_ClosedAfterAllDone ==
    /\ \A i, j \in 1..Len(received) :
          received[i].RequestType = received[j].RequestType => i = j
    /\ closed => \A t \in Tasks : tpc[t] = "done"

\* C21: the channel is closed after task A's result made the consumer
\* cancel B, and one of the cancelled tasks dropped its result.
C21_Witness ==
    /\ closed
    /\ Len(received) = 1
    /\ <<"A", "B">> \in cancels
    /\ \A t \in Tasks : tpc[t] = "done"

C23_ErrorResultsSkipped ==
    [][/\ (/\ Len(received') = Len(received) + 1
           /\ received'[Len(received')].Error /= nil)
          => /\ allCandidates' = allCandidates
             /\ canUseGraphQL' = canUseGraphQL
             /\ accepted' = accepted
             /\ cancelled' = cancelled
             /\ cancels' = cancels
       /\ ret'.err \in {nil, notFound}]_vars

\* C23: the capability probe failed with an error, task C's candidates were
\* adopted after it and returned.
C23_Witness ==
    /\ rpc = "returned"
    /\ ret.err = nil
    /\ accepted = <<"C">>
    /\ \E i, j \in 1..Len(received) :
          /\ i < j
          /\ received[i].RequestType = "B"
          /\ received[i].Error /= nil
          /\ received[j].RequestType = "C"

\* C24: every candidate of every list of the resolver (the result a task
\* has built, the candidates task C has collected, the results received,
\* the candidates adopted and those returned) has a score above 0, the
\* score of a pipeline that has a repository URL.
C24_CandidatesScorePositive ==
    LET Positive(c) ==
            \A i \in 1..Len(c) :
                /\ c[i].Score > 0
                /\ \E p \in Pipelines :
                      /\ p.Slug = c[i].Slug
                      /\ p.Repository /= <<>>
                      /\ PipelineScore[p] = c[i].Score
    IN  /\ \A t \in Tasks : Positive(res[t].Candidates)
        /\ Positive(candidatesC)
        /\ \A i \in 1..Len(received) : Positive(received[i].Candidates)
        /\ Positive(allCandidates)
        /\ Positive(firstAdopted)
        /\ Positive(ret.candidates)

\* C24: task C collected candidates over two pages and the resolver
\* returned two candidates.
C24_Witness ==
    /\ rpc = "returned"
    /\ pagesC = 2
    /\ accepted = <<"C">>
    /\ Len(ret.candidates) = 2

(***************************************************************************)
(* Properties of tryPipelineCandidates and of the errors of a fetch.       *)
(***************************************************************************)

\* C25: tryPipelineCandidates does not return on a failed fetch while a
\* candidate is left; it returns the error that no candidate has builds
\* exactly when the fetch of every candidate failed (of none, for the empty
\* list), and it returns no other error.
C25_NoEarlyAbort ==
    ppc = "returned" =>
        /\ (probeFetched /= <<>> /\ probeFetched[Len(probeFetched)].err /= nil)
              => Len(probeFetched) = Len(probeCandidates)
        /\ probeRet.err = noCandidateHasBuilds
              <=> /\ Len(probeFetched) = Len(probeCandidates)
                  /\ \A k \in 1..Len(probeFetched) : probeFetched[k].err /= nil
        /\ probeRet.err \in {nil, noCandidateHasBuilds}

\* C25: three candidates, the first fetch fails to connect, the context is
\* cancelled, the other two are still fetched and fail.
C25_Witness ==
    /\ ppc = "returned"
    /\ Len(probeCandidates) = 3
    /\ Len(probeFetched) = 3
    /\ probeFetched[1].err = UrlError(OpError("dial", "tcp", FALSE))
    /\ probeFetched[2].err = ctxErr
    /\ probeFetched[3].err = ctxErr
    /\ probeRet.err = noCandidateHasBuilds

(***************************************************************************)
(* Properties of the first fetch of doWait and doOpen.                     *)
(***************************************************************************)

\* C26: the first fetch is for the repository's name; the search for the
\* pipeline is entered exactly when that fetch failed with the API's 404 or
\* with no builds; when it succeeded the loop is entered with the same slug;
\* on any other error the command returns that error at once, having made
\* that one fetch. The search is entered from nowhere else, and once it has
\* given a slug every later fetch is for that slug.
C26_ResolveOnNotFoundOrNoBuilds ==
    /\ [](\A k \in 1..Len(fetchedSlugs) :
             fetchedSlugs[k] = IF k = 1 THEN remoteRepoName ELSE waitSlug)
    /\ [][/\ (wpc = "start" /\ wpc' /= "start") =>
             /\ wpc' = "resolve" <=> firstErr' \in {BuildkiteError(404), errNoBuilds}
             /\ wpc' = "previous" <=> firstErr' = nil
             /\ wpc' = "returned" <=> firstErr' \notin {nil, BuildkiteError(404), errNoBuilds}
             /\ wpc' = "returned" => wret' = firstErr' /\ Len(fetchedSlugs') = 1
             /\ waitSlug' = waitSlug
          /\ (wpc' = "resolve" /\ wpc /= "resolve") => wpc = "start"
          /\ (wpc' = "probe" /\ wpc /= "probe") => wpc = "resolve"
          /\ (wpc = "probe" /\ wpc' = "previous") => waitSlug' = probeRet.slug
          /\ wpc /= "probe" => waitSlug' = waitSlug]_vars

\* C26: doOpen's first fetch found no builds, the search gave another
\* pipeline and the loop has fetched its builds.
C26_Witness ==
    /\ command = "open"
    /\ firstErr = errNoBuilds
    /\ waitSlug /= remoteRepoName
    /\ Len(fetchedSlugs) = 3
    /\ fetchedSlugs[3] = waitSlug

(***************************************************************************)
(* Properties of the errors of the poll loop.                              *)
(***************************************************************************)

\* C27: when a fetch of doWait's loop fails with a timeout, a DNS failure or
\* a failure to dial tcp, doWait does not return: it goes to the 2 s sleep,
\* which it leaves by a return only when the context is done and otherwise
\* by the next fetch, 2 s later or more.
C27_TransientErrorsRetried ==
    [][/\ (/\ wpc = "fetch"
           /\ wpc' /= "fetch"
           /\ waitErr' /= nil
           /\ \/ waitErr'.timeout
              \/ waitErr'.type = "net.DNSError"
              \/ waitErr'.type = "net.OpError" /\ waitErr'.op = "dial" /\ waitErr'.net = "tcp")
          => wpc' = "sleep2"
       /\ (wpc = "sleep2" /\ wpc' /= "sleep2")
          => IF ctxDone THEN wpc' = "returned"
             ELSE wpc' = "fetch" /\ now' >= now + 2 * Second]_vars

\* C28: isHttpError is true exactly for the errors that are a timeout, a
\* DNS failure or a failure to dial tcp, in a url.Error or not; it is false
\* for nil and for every other error.
C28_TrueForTransient ==
    (fn = "isHttpError" /\ applied) =>
        fnResult = /\ arg /= nil
                   /\ \/ arg.timeout
                      \/ arg.type = "net.DNSError"
                      \/ arg.type = "net.OpError" /\ arg.op = "dial" /\ arg.net = "tcp"

\* C29: when a fetch of doWait's loop finds no builds, doWait returns in
\* that step, no time having passed, the error "No results, are you sure
\* there are tests for" with the organization and the repository name.
C29_NoBuildsIsFatal ==
    [][(wpc = "fetch" /\ polls' = polls + 1 /\ waitErr' = errNoBuilds)
          => /\ wpc' = "returned"
             /\ exit' = "nobuilds"
             /\ now' = now
             /\ wret'.type = "errorString"
             /\ wret'.text = "No results, are you sure there are tests for %s/%s?\n"
             /\ wret'.args = <<orgName, remoteRepoName>>]_vars

\* C29: the second fetch of the loop found no builds and doWait returned.
C29_Witness ==
    /\ wpc = "returned"
    /\ exit = "nobuilds"
    /\ polls = 2
    /\ waitErr = errNoBuilds
    /\ wret = noResults

\* C30: shouldPrint answers whether more than an interval has passed since
\* the last line, the interval read off the time remaining, which is the
\* duration of the previous passed build (five minutes when there is none)
\* less the time the build has run: 3 minutes above 25 minutes remaining,
\* 2 minutes above 8, 30 seconds above 5, 20 seconds above 3, 15 seconds
\* above 1, 10 seconds otherwise. The interval never grows as the build runs
\* on.
C30_IntervalByTimeRemaining ==
    (fn = "shouldPrint" /\ applied) =>
        LET reference == IF arg.previous = NoBuild THEN 300 * Second
                         ELSE arg.previous.FinishedAt.Time - arg.previous.StartedAt
            interval(elapsed) ==
                LET remaining == reference - elapsed
                IN  IF remaining > 1500 * Second THEN 180 * Second
                    ELSE IF remaining > 480 * Second THEN 120 * Second
                    ELSE IF remaining > 300 * Second THEN 30 * Second
                    ELSE IF remaining > 180 * Second THEN 20 * Second
                    ELSE IF remaining > 60 * Second THEN 15 * Second
                    ELSE 10 * Second
        IN  /\ fnResult[1] = (arg.gap > interval(arg.d1))
            /\ fnResult[2] = (arg.gap > interval(arg.d2))
            /\ interval(arg.d2) <= interval(arg.d1)
            /\ fnResult[1] => fnResult[2]

\* C30: with no previous build, a build that has run just under two minutes
\* is not reported 20 seconds after the last line, and one that has run
\* five minutes is.
C30_Witness ==
    /\ fn = "shouldPrint"
    /\ applied
    /\ arg.previous = NoBuild
    /\ arg.d1 = 2 * Minute - 1
    /\ arg.d2 = 5 * Minute
    /\ arg.gap = 20 * Second
    /\ fnResult = <<FALSE, TRUE>>

\* C31 as stated: a progress line is due exactly when the time since the
\* last line is at least the interval, the instant the interval has passed
\* included.
C31_DueFromInterval ==
    (fn = "shouldPrint" /\ applied) =>
        LET previousDuration ==
                IF arg.previous = NoBuild THEN 5 * Minute
                ELSE arg.previous.FinishedAt.Time - arg.previous.StartedAt
            left == previousDuration - arg.d1
            every == IF left > 25 * Minute THEN 3 * Minute
                     ELSE IF left > 8 * Minute THEN 2 * Minute
                     ELSE IF left > 5 * Minute THEN 30 * Second
                     ELSE IF left > 3 * Minute THEN 20 * Second
                     ELSE IF left > Minute THEN 15 * Second
                     ELSE 10 * Second
        IN  fnResult[1] = (arg.gap >= every)

\* C31 amended: a progress line is due exactly when more than the interval
\* has passed since the last line; at the instant the interval has passed it
\* is not yet due.
C31_DueAfterInterval ==
    (fn = "shouldPrint" /\ applied) =>
        LET previousDuration ==
                IF arg.previous = NoBuild THEN 5 * Minute
                ELSE arg.previous.FinishedAt.Time - arg.previous.StartedAt
            left == previousDuration - arg.d1
            every == IF left > 25 * Minute THEN 3 * Minute
                     ELSE IF left > 8 * Minute THEN 2 * Minute
                     ELSE IF left > 5 * Minute THEN 30 * Second
                     ELSE IF left > 3 * Minute THEN 20 * Second
                     ELSE IF left > Minute THEN 15 * Second
                     ELSE 10 * Second
        IN  /\ (arg.gap > every) => fnResult[1]
            /\ (arg.gap = every) => ~fnResult[1]
            /\ (arg.gap < every) => ~fnResult[1]

\* C31: shouldPrint was asked 10 seconds after the last line for a build
\* whose interval is 10 seconds, and answered that no line is due.
C31_Witness ==
    /\ fn = "shouldPrint"
    /\ applied
    /\ arg.previous = NoBuild
    /\ arg.d1 = 5 * Minute
    /\ arg.gap = 10 * Second
    /\ fnResult[1] = FALSE

\* C32: when a fetch of the loop finds the build of the tip running, doWait
\* prints the progress line exactly when shouldPrint says that one is due,
\* and sets lastPrintedAt to the present exactly when it prints; it prints
\* when nothing was printed before; and lastPrintedAt never moves back, so a
\* progress line comes later than the one before it by more than the
\* interval shouldPrint used for it.
C32_ProgressWhenDue ==
    /\ [][(/\ wpc = "fetch"
           /\ polls' = polls + 1
           /\ waitErr' = nil
           /\ latestBuild'.Commit = tip
           /\ latestBuild'.State = "running")
          => \E due \in {shouldPrint(lastPrintedAt, duration(latestBuild', now),
                                     latestBuild', previousBuild, now)} :
                /\ due <=> (lastOut' = {"progress"})
                /\ due <=> (progressLines' = progressLines + 1)
                /\ ~due <=> (progressLines' = progressLines /\ lastOut' = {})
                /\ lastPrintedAt' = (IF due THEN now ELSE lastPrintedAt)
                /\ lastPrintedAt = ZeroTime => due
                /\ due => now - lastPrintedAt > 10 * Second
                /\ wpc' = "sleep3"]_vars
    /\ [][lastPrintedAt' >= lastPrintedAt /\ lastPrintedAt' <= now']_vars

\* C32: two fetches in a row found the build of the tip running, with no
\* previous build to go by, and each printed a progress line.
C32_Witness ==
    /\ wpc = "sleep3"
    /\ polls = 2
    /\ progressLines = 2
    /\ lastOut = {"progress"}
    /\ latestBuild.State = "running"
    /\ previousBuild = NoBuild
    /\ lastPrintedAt = now

\* C33: when a fetch of the loop finds the build of the tip in a state other
\* than passed, failed, failing and running, doWait prints the state line,
\* sets lastPrintedAt to the present and goes to its sleep of 3 seconds
\* without returning; from that sleep it fetches again at least 3 seconds
\* later, or returns the context's error when the context is done.
C33_OtherStatesPollAgain ==
    /\ [][(/\ wpc = "fetch"
           /\ polls' = polls + 1
           /\ waitErr' = nil
           /\ latestBuild'.Commit = tip
           /\ latestBuild'.State \notin {"passed", "failed", "failing", "running"})
          => /\ lastOut' = {"state"}
             /\ lastPrintedAt' = now
             /\ progressLines' = progressLines
             /\ wpc' = "sleep3"
             /\ wret' = wret
             /\ exit' = exit]_vars
    /\ [][(/\ wpc = "sleep3"
           /\ wpc' /= "sleep3"
           /\ latestBuild.State \notin {"passed", "failed", "failing", "running"})
          => IF wpc' = "returned"
             THEN /\ ctxDone
                  /\ wret'.text = "context canceled"
                  /\ ~wret'.wrapped
                  /\ exit' = "cancel3"
             ELSE wpc' = "fetch" /\ now' >= now + 3 * Second /\ ~ctxDone]_vars

\* C33: three fetches in a row found the build of the tip canceled, and
\* doWait sleeps before the next.
C33_Witness ==
    /\ wpc = "sleep3"
    /\ polls = 3
    /\ latestBuild.State = "canceled"
    /\ latestBuild.Commit = tip
    /\ lastOut = {"state"}
    /\ lastPrintedAt = now
    /\ now >= 6 * Second
    /\ wret = nil

\* C34: the previous build shouldPrint goes by is the first passed build
\* after the latest one in the listing of at most three builds that doWait
\* fetched before its loop, and no build when there is none or the listing
\* failed; it is set by that one step and never again; and with no previous
\* build a progress line is printed by the interval for what is left of
\* five minutes.
C34_PreviousChosenOnce ==
    /\ [](/\ Len(recentBuilds) <= 3
          /\ previousBuild = NoBuild
                <=> ~\E i \in 2..Len(recentBuilds) : recentBuilds[i].State = "passed"
          /\ previousBuild /= NoBuild
                => \E i \in 2..Len(recentBuilds) :
                      /\ previousBuild = recentBuilds[i]
                      /\ recentBuilds[i].State = "passed"
                      /\ \A j \in 2..(i - 1) : recentBuilds[j].State /= "passed")
    /\ [][wpc /= "previous"
             => previousBuild' = previousBuild /\ recentBuilds' = recentBuilds]_vars
    /\ [][(/\ wpc = "fetch"
           /\ polls' = polls + 1
           /\ waitErr' = nil
           /\ latestBuild'.Commit = tip
           /\ latestBuild'.State = "running")
          => LET reference == IF previousBuild = NoBuild THEN 5 * Minute
                              ELSE previousBuild.FinishedAt.Time - previousBuild.StartedAt
                 left == reference - duration(latestBuild', now)
                 every == IF left > 25 * Minute THEN 3 * Minute
                          ELSE IF left > 8 * Minute THEN 2 * Minute
                          ELSE IF left > 5 * Minute THEN 30 * Second
                          ELSE IF left > 3 * Minute THEN 20 * Second
                          ELSE IF left > Minute THEN 15 * Second
                          ELSE 10 * Second
             IN  (lastOut' = {"progress"}) <=> (now - lastPrintedAt > every)]_vars

\* C34: the listing held the latest build, a failed build and a passed one;
\* the loop runs with the passed one as its previous build.
C34_Witness ==
    /\ wpc = "sleep3"
    /\ polls >= 1
    /\ Len(recentBuilds) = 3
    /\ recentBuilds[1].State = "passed"
    /\ recentBuilds[2].State = "failed"
    /\ recentBuilds[3].State = "passed"
    /\ previousBuild = recentBuilds[3]

(***************************************************************************)
(* Properties of the values of repoSimilarityScore.                        *)
(***************************************************************************)

C36_ContainsScore ==
    (fn = "repoSimilarityScore" /\ applied) =>
        LET parts == Split(TrimSuffix(normalizeRepo(arg.url), Slash), "/")
            n == Len(parts)
            segment == parts[n]
            extra == Len(segment) - Len(arg.slug)
            owner == IF n >= 2 THEN parts[n - 1] ELSE <<>>
            org == ToLower(arg.org)
        IN  (~sameRepo(arg.org, arg.slug, arg.url) /\ Contains(segment, arg.slug))
               => /\ fnResult =
                        500
                        + (IF HasSuffix(segment, arg.slug) THEN 200 ELSE 0)
                        + (IF extra <= 10 THEN 100 - 5 * extra ELSE 0)
                        + (IF ToLower(owner) = org THEN 100
                           ELSE IF Contains(owner, org) \/ Contains(org, owner)
                                THEN 50 ELSE 0)
                  /\ fnResult >= 500
                  /\ fnResult <= 900

\* C36 amended: the same of a candidate of at least two path segments.
C36_ContainsScoreOfTwoSegments ==
    (fn = "repoSimilarityScore" /\ applied) =>
        LET parts == Split(TrimSuffix(normalizeRepo(arg.url), Slash), "/")
            n == Len(parts)
            segment == parts[n]
            extra == Len(segment) - Len(arg.slug)
            owner == parts[n - 1]
            org == ToLower(arg.org)
        IN  (/\ ~sameRepo(arg.org, arg.slug, arg.url)
             /\ n >= 2
             /\ Contains(segment, arg.slug))
               => /\ fnResult =
                        500
                        + (IF HasSuffix(segment, arg.slug) THEN 200 ELSE 0)
                        + (IF extra <= 10 THEN 100 - 5 * extra ELSE 0)
                        + (IF ToLower(owner) = org THEN 100
                           ELSE IF Contains(owner, org) \/ Contains(org, owner)
                                THEN 50 ELSE 0)
                  /\ fnResult >= 500
                  /\ fnResult <= 900

\* C36: a candidate of another organization whose last segment begins with
\* the repository name and is 11 characters longer scores 500.
C36_Witness ==
    /\ fn = "repoSimilarityScore"
    /\ applied
    /\ arg.org = <<"o">>
    /\ arg.slug = <<"r">>
    /\ arg.url = <<"p","/","r","x","x","x","x","x","x","x","x","x","x","x">>
    /\ fnResult = 500

\* C37: no candidate scores more than 1000, the score of an exact match.
C37_AtMostExactScore ==
    (fn = "repoSimilarityScore" /\ applied) => fnResult <= 1000

(***************************************************************************)
(* Liveness of the poll loop.                                              *)
(***************************************************************************)

\* C38: when the context is never cancelled and from some point on every
\* fetch of the loop succeeds with a build of the tip that has passed,
\* failed or is failing, doWait returns: nil when it leaves the loop on a
\* passed build, the error "Build on ... failed!" when it leaves it on a
\* failed or failing one.
C38_LoopReturns ==
    (/\ []~ctxDone
     /\ <>[][polls' = polls + 1
               => /\ waitErr' = nil
                  /\ latestBuild'.Commit = tip
                  /\ latestBuild'.State \in {"passed", "failed", "failing"}]_vars)
    => <>(/\ wpc = "returned"
          /\ exit = "passed" <=> (/\ polls > 0
                                  /\ waitErr = nil
                                  /\ latestBuild.Commit = tip
                                  /\ latestBuild.State = "passed")
          /\ exit = "passed" => wret = nil
          /\ exit = "failed" <=> (/\ polls > 0
                                  /\ waitErr = nil
                                  /\ latestBuild.Commit = tip
                                  /\ latestBuild.State \in {"failed", "failing"})
          /\ exit = "failed" => wret.text = "Build on %s failed!\n\n")

\* C38: after two fetches that found the build of the tip running, the
\* third found it passed and doWait returned nil.
C38_Witness ==
    /\ wpc = "returned"
    /\ ~ctxDone
    /\ polls = MaxPolls
    /\ progressLines >= 1
    /\ latestBuild.State = "passed"
    /\ latestBuild.Commit = tip
    /\ exit = "passed"
    /\ wret = nil

(***************************************************************************)
(* Properties of doOpen.                                                   *)
(***************************************************************************)

\* C39: doOpen calls openURL at most once, with the WebURL of the build it
\* fetched last, a build of the tip, and returns in that step; a fetch of its
\* loop that finds a build of the tip opens it whatever its state, one that
\* finds a build of another commit opens nothing and is followed, 5 seconds
\* later or more, by the next fetch; and when the context is done during one
\* of its two sleeps doOpen returns the context's error, nothing opened.
C39_OpensTipBuildOnce ==
    /\ [](command = "open"
            => /\ Len(opened) <= 1
               /\ opened /= <<>>
                     => /\ wpc = "returned"
                        /\ exit = "open"
                        /\ waitErr = nil
                        /\ opened[1] = latestBuild
                        /\ latestBuild.Commit = tip)
    /\ [][(command = "open" /\ polls' = polls + 1 /\ waitErr' = nil)
             => IF latestBuild'.Commit = tip
                THEN opened' = <<latestBuild'>> /\ wpc' = "returned"
                ELSE /\ opened' = <<>>
                     /\ wpc' = "sleep5"
                     /\ wret' = wret]_vars
    /\ [][(command = "open" /\ wpc \in {"sleep2", "sleep5"} /\ wpc' /= wpc)
             => IF ctxDone
                THEN /\ wpc' = "returned"
                     /\ wret'.text = "context canceled"
                     /\ ~wret'.wrapped
                     /\ opened' = <<>>
                ELSE /\ wpc' = "fetch"
                     /\ wpc = "sleep5" => now' >= now + 5 * Second
                     /\ opened' = <<>>]_vars

\* C39: the first fetch of doOpen's loop found a build of another commit,
\* the second the failed build of the tip, which doOpen opened.
C39_Witness ==
    /\ command = "open"
    /\ wpc = "returned"
    /\ exit = "open"
    /\ polls = 2
    /\ now >= 5 * Second
    /\ latestBuild.State = "failed"
    /\ latestBuild.Commit = tip
    /\ opened = <<latestBuild>>
    /\ wret = nil
====
